---- MODULE Spec2Model ----
(***************************************************************************)
(* The boot-image import pipeline of provisioningserver/import_images/     *)
(* boot_resources.py: import_images and the helpers it calls, as a state   *)
(* machine over the storage directory (snapshots, their control files,     *)
(* the `current` symlink, the download cache) and the tgt daemon.          *)
(* One action per statement of import_images that changes state or can     *)
(* raise; a process kill and a concurrent reader of `current` run beside   *)
(* it. meta_contains and compose_targets_conf are also checked on their    *)
(* own, over every input within the bounds.                                *)
(***************************************************************************)
EXTENDS Naturals, Integers, Sequences, FiniteSets, TLC

\* ------------------------------------------------------------------ bounds
\* Runs of import_images in a behaviour; each creates at most one snapshot
\* directory, so this bounds the snapshot names too. Two runs give a run on
\* a cold storage and a run on what any first run left behind.
MaxRuns == 2
\* Longest text meta_contains is given, and finds stored, when it is checked
\* on its own (SpecMeta).
MaxLen == 3
\* Boot methods in the BootMethodRegistry that link_bootloaders walks.
MaxBootMethods == 2
\* Longest list of images list_boot_images returns when compose_targets_conf
\* is checked on its own (SpecTargets).
MaxListed == 3
\* Rounds of start_services' retry loop before retries(15, 1, reactor) runs
\* out of time, at most.
MaxAttempts == 3
\* Server processes that run start_up at the same time.
MaxProcs == 2
\* Deepest nesting of atomic blocks a connection is in when a function is
\* entered.
MaxDepth == 2
\* Nodes that have script sets.
MaxNodes == 2
\* ScriptSet rows ever created.
MaxScriptSets == 3
\* Largest value configured for max_node_commissioning_results,
\* max_node_testing_results and max_node_installation_results.
MaxLimit == 3

\* ------------------------------------------------------------- data values
\* Code points of the ASCII-only JSON text ('A', 'B').
Chars == {65, 66}
\* Every text within the bound.
Texts == UNION {[1..n -> Chars] : n \in 1..MaxLen}
\* What the upstream catalog serialises to (dump_json) in the pipeline's
\* runs: "A", its extension "AB", and "B", which differs from the first byte.
Catalogs == {<<65>>, <<65, 66>>, <<66>>}
\* A path the filesystem holds nothing at (os.path.isfile is False).
NoFile == <<-1>>
\* `current` when the symlink does not exist.
NoSnapshot == 0
SnapshotIds == 1..MaxRuns
\* The registry's boot methods, numbered in the order it yields them.
BootMethods == 1..MaxBootMethods

VARIABLES
    runs,           \* runs of import_images started so far
    snapshots,      \* snapshot directories present under storage
    populated,      \* snapshots whose image content was downloaded in full
    metaFile,       \* snapshot -> bytes of its maas.meta, or NoFile
    metaMtime,      \* snapshot -> the run that last wrote or touched maas.meta
    tgtFile,        \* snapshots that hold a maas.tgt
    cache,          \* entries of the shared download cache
    current,        \* target of the storage/current symlink, or NoSnapshot
    daemon,         \* snapshot whose maas.tgt tgt-admin last loaded
    nextId,         \* name (timestamp) the next snapshot directory gets
    pc,             \* position of the import_images run
    sources_empty,  \* len(sources) == 0 in this run
    meta_file_content, \* image_descriptions.dump_json() of this run
    snapshot_path,  \* what download_all_boot_resources returned in this run
    staging,        \* directory download_all_boot_resources is populating
    refs,           \* snapshot -> the cache entry its files are linked from
    result,         \* how the run ended
    failedAt,       \* the step whose exception ended the run
    startCurrent,   \* `current` when the run started
    startSnapshots, \* snapshots when the run started
    startCache,     \* cache when the run started
    tgtCalls,       \* calls of update_iscsi_targets in this run
    tgtTarget,      \* snapshot the last update_iscsi_targets call resolved
    cleanupCalls,   \* calls of cleanup_snapshots_and_cache in this run
    downloadCalls,  \* calls of download_all_boot_resources in this run
    metaResult,     \* what meta_contains returned in this run
    linked,         \* update_current_symlink has executed in this run
    everSet,        \* `current` has been created at some time
    activated,      \* snapshot -> the run that pointed `current` at it (0 if
                    \* none has)
    abandoned,      \* directories left by runs killed before the symlink step
    prevCommitted,  \* meta_file_content of the run before this one, if it
                    \* returned True (NoText if it did not)
    observed,       \* what a concurrent reader last saw through `current`
                    \* since the run started
    steps,          \* the calls import_images has made from line 321 on, in
                    \* the order it made them, in this run
    tgtOutcome,     \* how the last update_targets_conf call of this run went
    cleanupOutcome, \* how the last cleanup_snapshots_and_cache call went
    linkTried,      \* boot methods whose link_bootloader was called
    linkLogged,     \* boot methods whose failure link_bootloaders reported
    linkRaising,    \* boot methods whose link_bootloader raised
    listing,        \* what list_boot_images(snapshot_path) returns
    relisting,      \* what it returns for the same snapshot another time
    images,         \* image directory -> the image files it holds
    conf,           \* compose_targets_conf's output for `listing`
    reconf,         \* compose_targets_conf's output for `relisting`
    mpc,            \* where main_with_services is
    attempts,       \* getRegionClient calls start_services has made
    loaded,         \* how BootSources.load ended
    loadCalls,      \* calls of BootSources.load
    importCalls,    \* calls of import_images by main
    main_raised,    \* the exception that left main
    caught,         \* the exception that reached run_main's except clauses
    exit_codes,     \* run_main's exit_codes
    exit_code,      \* the code of the SystemExit main_with_services raises
    mlog,           \* what main_with_services has called, in order
    rpc,            \* where retrier is
    round,          \* rounds of retrier's loop that have ended
    calls,          \* calls of func made by retrier
    lastCall,       \* how the last call of func ended
    retriedOn,      \* the exceptions after which func was called again
    successes,      \* calls of func that returned
    retrier_result, \* how retrier ended
    spc,            \* process -> where its start_up is
    atomic,         \* processes inside start_up's transaction.atomic()
    startup,        \* the process that holds locks.startup
    inner_done,     \* process -> the jobs of inner_start_up it has done
    inner_raised,   \* processes whose inner_start_up raised
    depth,          \* connection -> the atomic blocks it is nested in
    depth0,         \* `depth` when the function under study was entered
    tpc,            \* where call_within_transaction is
    via,            \* the function call_within_transaction chose to call
    closed,         \* calls of close_old_connections
    tresult,        \* how call_within_transaction ended
    opc,            \* where outside_atomic_block is
    using,          \* the connection outside_atomic_block was given
    saved,          \* outside_atomic_block's local `depth`
    body_raised,    \* the body of the `with outside_atomic_block` raised
    script_sets,    \* ids of the ScriptSet rows that exist
    ss_node,        \* script set id -> its node (kept after the row is gone)
    ss_type,        \* script set id -> its result_type (kept likewise)
    last_ping,      \* script set id -> its last_ping (NoPing: NULL)
    currents,       \* node -> result type -> the node's current script set
    next_id,        \* the id the next ScriptSet row gets
    limits,         \* result type -> the configured maximum per node
    last_op,        \* the last operation on script sets, and how it ended
    created,        \* the script set the last create_*_script_set made
    cleaned,        \* the script sets the last _clean_old deleted
    deleting,       \* the script set the last delete() was called on
    before          \* `currents` and `script_sets` before the last operation

vars == <<runs, snapshots, populated, metaFile, metaMtime, tgtFile, cache,
          current, daemon,
          nextId, pc, sources_empty, meta_file_content, snapshot_path, staging,
          refs, result,
          failedAt, startCurrent, startSnapshots, startCache, tgtCalls,
          tgtTarget, cleanupCalls, downloadCalls, metaResult, linked, everSet,
          activated,
          abandoned, prevCommitted, observed, steps, tgtOutcome,
          cleanupOutcome, linkTried, linkLogged, linkRaising, listing,
          relisting, images, conf, reconf, mpc, attempts, loaded, loadCalls,
          importCalls, main_raised, caught, exit_codes, exit_code, mlog,
          rpc, round, calls, lastCall, retriedOn, successes, retrier_result,
          spc, atomic, startup, inner_done, inner_raised,
          depth, depth0, tpc, via, closed, tresult, opc, using, saved,
          body_raised, script_sets, ss_node, ss_type, last_ping, currents,
          next_id, limits, last_op, created, cleaned, deleting, before>>

\* The storage directory and the daemon, the run's locals, the bookkeeping.
disk == <<snapshots, populated, metaFile, metaMtime, tgtFile, cache, current,
          daemon,
          nextId, refs>>
locals == <<sources_empty, meta_file_content, snapshot_path, staging>>
starts == <<runs, startCurrent, startSnapshots, startCache, prevCommitted>>
counts == <<tgtCalls, tgtTarget, cleanupCalls, downloadCalls, metaResult>>
outcomes == <<tgtOutcome, cleanupOutcome>>
pointed == <<everSet, activated>>
links == <<linkTried, linkLogged, linkRaising>>
trace == <<steps, tgtOutcome, cleanupOutcome, linkTried, linkLogged,
           linkRaising>>
\* compose_targets_conf's inputs and outputs.
targets == <<listing, relisting, images, conf, reconf>>
\* main_with_services' position, locals and bookkeeping.
mainv == <<mpc, attempts, loaded, loadCalls, importCalls, main_raised, caught,
           exit_codes, exit_code, mlog>>
\* What import_images reads and writes.
pipeline == <<runs, disk, pc, locals, result, failedAt, startCurrent,
              startSnapshots, startCache, prevCommitted, counts, linked,
              pointed, abandoned, observed, trace>>
\* What no function but import_images' callers and the other modules use.
\* retry_on_serialization_failure's retrier: position, locals, bookkeeping.
retryv == <<rpc, round, calls, lastCall, retriedOn, successes, retrier_result>>
\* start_up in every process, and the lock they share.
startv == <<spc, atomic, startup, inner_done, inner_raised>>
\* The connections' atomic blocks, transactional's wrapper and
\* outside_atomic_block.
txnv == <<depth, depth0, tpc, via, closed, tresult, opc, using, saved,
          body_raised>>
\* The ScriptSet table, the nodes' current script sets, the configuration.
scriptv == <<script_sets, ss_node, ss_type, last_ping, currents, next_id,
             limits, last_op, created, cleaned, deleting, before>>
others == <<mainv, retryv, startv, txnv, scriptv>>
\* What main_with_services, retrier and start_up each leave alone.
beside_main == <<targets, retryv, startv, txnv, scriptv>>
beside_retry == <<pipeline, targets, mainv, startv, txnv, scriptv>>
beside_start_up == <<pipeline, targets, mainv, retryv, txnv, scriptv>>
beside_txn == <<pipeline, targets, mainv, startv, scriptv>>
beside_scripts == <<pipeline, targets, mainv, retryv, startv, txnv>>
\* What import_images leaves alone.
beside == <<targets, others>>

NoText == <<>>

\* Field values of the images a snapshot holds, as code points: osystem
\* "u" or "c", architecture "a", subarchitecture "g", release "x" or "s",
\* label "r" or "d".
ImageTuples ==
    {<<<<117>>, <<97>>, <<103>>, <<120>>, <<114>>>>,
     <<<<117>>, <<97>>, <<103>>, <<120>>, <<100>>>>,
     <<<<99>>, <<97>>, <<103>>, <<115>>, <<114>>>>}
\* The image files compose_targets_conf looks for in an image directory.
ImageFiles == {"root-image", "squashfs"}
\* Every list of images within the bound.
Listings == UNION {[1..n -> ImageTuples] : n \in 0..MaxListed}
\* conf before compose_targets_conf has returned: no output has a block
\* with an empty target name.
NotComposed ==
    <<[target |-> <<>>, backing_store |-> [base_path |-> <<>>, name |-> ""]]>>
NotRead == [ptr |-> -1, whole |-> TRUE, wasSet |-> FALSE]

\* The storage before the first import: no snapshot, no `current`.
ColdStorage ==
    /\ runs = 0
    /\ snapshots = {}
    /\ populated = {}
    /\ metaFile = [s \in SnapshotIds |-> NoFile]
    /\ metaMtime = [s \in SnapshotIds |-> 0]
    /\ tgtFile = {}
    /\ cache = {}
    /\ current = NoSnapshot
    /\ daemon = NoSnapshot
    /\ nextId = 1
    /\ pc = "idle"
    /\ sources_empty = FALSE
    /\ meta_file_content = NoText
    /\ snapshot_path = NoSnapshot
    /\ staging = NoSnapshot
    /\ refs = [s \in SnapshotIds |-> NoText]
    /\ result = "none"
    /\ failedAt = "none"
    /\ startCurrent = NoSnapshot
    /\ startSnapshots = {}
    /\ startCache = {}
    /\ tgtCalls = 0
    /\ tgtTarget = NoSnapshot
    /\ cleanupCalls = 0
    /\ downloadCalls = 0
    /\ metaResult = "none"
    /\ linked = FALSE
    /\ everSet = FALSE
    /\ activated = [s \in SnapshotIds |-> 0]
    /\ abandoned = {}
    /\ prevCommitted = NoText
    /\ observed = NotRead
    /\ steps = <<>>
    /\ tgtOutcome = "none"
    /\ cleanupOutcome = "none"
    /\ linkTried = {}
    /\ linkLogged = {}
    /\ linkRaising = {}

\* compose_targets_conf has been given nothing.
\* An exception as the handlers tell one from another: its class, the errno
\* of an IOError or OSError, the code of a SystemExit.
Exc(type, errno, code) == [type |-> type, errno |-> errno, code |-> code]
\* No exception: the call returned.
Returned == Exc("none", "none", 0)
\* The call has not been made.
NotCalled == Exc("not called", "none", 0)
\* The exit code before main_with_services has raised its SystemExit.
NoExit == -1

MainNotStarted ==
    /\ mpc = "boot"
    /\ attempts = 0
    /\ loaded = NotCalled
    /\ loadCalls = 0
    /\ importCalls = 0
    /\ main_raised = NotCalled
    /\ caught = NotCalled
    /\ exit_codes = {0}
    /\ exit_code = NoExit
    /\ mlog = <<>>

\* The functions a specification does not run are at their start.
\* A call that has not ended.
NoOutcome == [kind |-> "none", value |-> 0, exc |-> <<>>]

RetrierNotCalled ==
    /\ rpc = "idle"
    /\ round = 0
    /\ calls = 0
    /\ lastCall = NoOutcome
    /\ retriedOn = {}
    /\ successes = 0
    /\ retrier_result = NoOutcome

\* The processes that start the server.
Procs == 1..MaxProcs
\* locks.startup when no process holds it.
Unlocked == 0

StartUpNotCalled ==
    /\ spc = [p \in Procs |-> "start_up"]
    /\ atomic = {}
    /\ startup = Unlocked
    /\ inner_done = [p \in Procs |-> 0]
    /\ inner_raised = {}

\* The database connections (django.db.connections): "default" and one
\* more.
Conns == {"default", "other"}

\* No transactional function and no outside_atomic_block has been entered.
TxnNotCalled ==
    /\ tpc = "idle"
    /\ via = "none"
    /\ closed = 0
    /\ tresult = NoOutcome
    /\ opc = "idle"
    /\ using = "default"
    /\ saved = 0
    /\ body_raised = FALSE

NoTransaction ==
    /\ depth = [c \in Conns |-> 0]
    /\ depth0 = depth
    /\ TxnNotCalled

\* The nodes, the ids of ScriptSet rows, RESULT_TYPE's values.
Nodes == 1..MaxNodes
ScriptSetIds == 1..MaxScriptSets
ResultTypes == {"commissioning", "installation", "testing"}
\* A foreign key that is NULL, and a last_ping that is NULL.
NoScriptSet == 0
NoPing == 0

\* No ScriptSet row yet, and each maximum at the given value.
\* What `before` holds unless the last operation was a delete: the node of
\* the row delete was called on, and the result types for which the row was
\* that node's current script set when delete was called.
NoDelete == [node |-> 1, current |-> {}]

NoScriptSets(limit) ==
    /\ script_sets = {}
    /\ ss_node = [s \in ScriptSetIds |-> 1]
    /\ ss_type = [s \in ScriptSetIds |-> "commissioning"]
    /\ last_ping = [s \in ScriptSetIds |-> NoPing]
    /\ currents = [n \in Nodes |-> [r \in ResultTypes |-> NoScriptSet]]
    /\ next_id = 1
    /\ limits = limit
    /\ last_op = "none"
    /\ created = NoScriptSet
    /\ cleaned = {}
    /\ deleting = NoScriptSet
    /\ before = NoDelete

OthersIdle ==
    /\ MainNotStarted /\ RetrierNotCalled /\ StartUpNotCalled
    /\ NoTransaction
    /\ NoScriptSets([r \in ResultTypes |-> 1])

NoListing ==
    /\ listing = <<>>
    /\ relisting = <<>>
    /\ images = [t \in ImageTuples |-> {}]
    /\ conf = NotComposed
    /\ reconf = NotComposed

Init == ColdStorage /\ NoListing /\ OthersIdle

\* ------------------------------------------------------------ conversions
\* str.encode("ascii"): one byte per code point; a code point above 127 has
\* no encoding (UnicodeEncodeError), which no text of Texts holds.
IsAscii(text) == \A i \in 1..Len(text) : text[i] < 128

EncodeAscii(text) == [i \in 1..Len(text) |-> text[i]]

\* read_text_file: the bytes of the file decoded back to code points.
read_text_file(bytes) == [i \in 1..Len(bytes) |-> bytes[i]]

\* os.path.join(storage, 'current', name): the path resolves through the
\* symlink; with no symlink, or a dangling one, it names nothing.
ResolveCurrent == IF current \in snapshots THEN current ELSE NoSnapshot

\* A snapshot whose content and both control files are in place.
FullyWritten(s) ==
    /\ s \in snapshots
    /\ s \in populated
    /\ metaFile[s] # NoFile
    /\ s \in tgtFile

\* ------------------------------------------------------------ the helpers
\* meta_contains(storage, content): exists and content == read_text_file(..).
meta_contains_str_vs_bytes(content) == FALSE

meta_contains_first_char(content) ==
    LET current_meta == IF ResolveCurrent = NoSnapshot THEN NoFile
                        ELSE metaFile[ResolveCurrent]
        exists == current_meta # NoFile
    IN  exists /\ Head(content) = Head(read_text_file(current_meta))

meta_contains(content) ==
    LET current_meta == IF ResolveCurrent = NoSnapshot THEN NoFile
                        ELSE metaFile[ResolveCurrent]
        exists == current_meta # NoFile
    IN  exists /\ content = read_text_file(current_meta)

\* Lines 175-179 of meta_contains: os.utime sets the file's timestamp to now
\* whenever `current`/maas.meta is a file.
utime_current_meta_when_unchanged ==
    metaMtime' = IF /\ ResolveCurrent # NoSnapshot
                    /\ metaFile[ResolveCurrent] # NoFile
                    /\ meta_contains(meta_file_content)
                 THEN [metaMtime EXCEPT ![ResolveCurrent] = runs]
                 ELSE metaMtime

utime_current_meta ==
    metaMtime' = IF ResolveCurrent # NoSnapshot /\ metaFile[ResolveCurrent] # NoFile
                 THEN [metaMtime EXCEPT ![ResolveCurrent] = runs]
                 ELSE metaMtime

\* An exception leaves import_images: the run ends at the step that raised.
Raise(step) ==
    /\ pc' = "done"
    /\ result' = "raised"
    /\ failedAt' = IF failedAt = "none" THEN step ELSE failedAt

\* write_snapshot_metadata(snapshot, meta_file_content): atomic_write puts
\* the encoded text at <snapshot>/maas.meta in one rename.
write_snapshot_metadata(snapshot, content) ==
    /\ metaFile' = [metaFile EXCEPT ![snapshot] = EncodeAscii(content)]
    /\ metaMtime' = [metaMtime EXCEPT ![snapshot] = runs]

\* write_targets_conf(snapshot): atomic_write of compose_targets_conf's
\* output at <snapshot>/maas.tgt (written also when it lists no target).
write_targets_conf_skipped(snapshot) == tgtFile' = tgtFile

write_targets_conf(snapshot) == tgtFile' = tgtFile \cup {snapshot}

\* atomic_symlink(source, storage/current): a temporary link is renamed over
\* the name, so the name goes from its old target to the new one in one step.
atomic_symlink(source) == current' = source

\* update_current_symlink(storage, latest_snapshot).
update_current_symlink_unlink_first(latest_snapshot, next) ==
    IF current # NoSnapshot
    THEN /\ current' = NoSnapshot
         /\ UNCHANGED <<pc, linked, pointed, steps>>
    ELSE /\ current' = latest_snapshot
         /\ steps' = Append(steps, "update_current_symlink")
         /\ linked' = TRUE
         /\ everSet' = TRUE
         /\ activated' = [activated EXCEPT ![latest_snapshot] = runs]
         /\ pc' = next

update_current_symlink(latest_snapshot, next) ==
    /\ atomic_symlink(latest_snapshot)
    /\ steps' = Append(steps, "update_current_symlink")
    /\ linked' = TRUE
    /\ everSet' = TRUE
    /\ activated' = [activated EXCEPT ![latest_snapshot] = runs]
    /\ pc' = next

\* update_targets_conf(snapshot), called by update_iscsi_targets: wait for
\* tgt (the wait is outside the try and may raise), return if the snapshot
\* has no maas.tgt, else run tgt-admin, whose ExternalProcessError is only
\* logged. `snapshot` is NoSnapshot when the path given does not resolve.
update_targets_conf(snapshot, next) ==
    /\ tgtCalls' = tgtCalls + 1
    /\ tgtTarget' = snapshot
    /\ steps' = Append(steps, "update_iscsi_targets")
    /\ \E ensureService \in {"ready", "raise"} :
          IF ensureService = "raise"
          THEN /\ Raise("update_targets")
               /\ tgtOutcome' = "not_ready"
               /\ UNCHANGED daemon
          ELSE /\ pc' = next
               /\ UNCHANGED <<result, failedAt>>
               /\ IF snapshot \notin tgtFile
                  THEN /\ tgtOutcome' = "no_targets_file"
                       /\ UNCHANGED daemon
                  ELSE \E tgt_admin \in {"ok", "ExternalProcessError"} :
                          /\ tgtOutcome' = tgt_admin
                          /\ daemon' = IF tgt_admin = "ok" THEN snapshot
                                       ELSE daemon

update_iscsi_targets_not_called(snapshot, next) ==
    /\ pc' = next
    /\ UNCHANGED <<tgtCalls, tgtTarget, daemon, result, failedAt, steps,
                   tgtOutcome>>

update_iscsi_targets(snapshot, next) == update_targets_conf(snapshot, next)

\* cleanup_snapshots_and_cache(storage): every snapshot but the one `current`
\* names is removed, then every cache entry no remaining snapshot links.
\* A step of it that fails raises: the snapshots removed before it are gone,
\* the other ones and the cache are as they were.
cleanup_snapshots_keeping_newest ==
    LET keep == {s \in snapshots : \A o \in snapshots : o <= s}
    IN  /\ cleanupOutcome' = "ok"
        /\ steps' = Append(steps, "cleanup_snapshots_and_cache")
        /\ snapshots' = keep
        /\ populated' = populated \cap keep
        /\ tgtFile' = tgtFile \cap keep
        /\ metaFile' = [s \in SnapshotIds |->
                          IF s \in keep THEN metaFile[s] ELSE NoFile]
        /\ metaMtime' = [s \in SnapshotIds |->
                           IF s \in keep THEN metaMtime[s] ELSE 0]
        /\ refs' = [s \in SnapshotIds |->
                      IF s \in keep THEN refs[s] ELSE NoText]
        /\ cache' = {e \in cache : \E s \in keep : refs[s] = e}
        /\ cleanupCalls' = cleanupCalls + 1

cleanup_snapshots_and_cache ==
    \E outcome \in {"ok", "raised"} :
    \E gone \in SUBSET (snapshots \ {current}) :
    LET keep == snapshots \ gone
    IN  /\ outcome = "ok" => gone = snapshots \ {current}
        /\ cleanupOutcome' = outcome
        /\ steps' = Append(steps, "cleanup_snapshots_and_cache")
        /\ snapshots' = keep
        /\ populated' = populated \cap keep
        /\ tgtFile' = tgtFile \cap keep
        /\ metaFile' = [s \in SnapshotIds |->
                          IF s \in keep THEN metaFile[s] ELSE NoFile]
        /\ metaMtime' = [s \in SnapshotIds |->
                           IF s \in keep THEN metaMtime[s] ELSE 0]
        /\ refs' = [s \in SnapshotIds |->
                      IF s \in keep THEN refs[s] ELSE NoText]
        /\ cache' = IF outcome = "ok"
                    THEN {e \in cache : \E s \in keep : refs[s] = e}
                    ELSE cache
        /\ cleanupCalls' = cleanupCalls + 1

\* link_bootloaders(destination): every boot method of the registry in turn;
\* whatever one's link_bootloader raises is caught, reported to the region
\* and logged, and the loop goes on. `raising` are the methods that raise.
RECURSIVE link_each_stopping_at_failure(_, _, _)
link_each_stopping_at_failure(methods, raising, done) ==
    IF methods = {} THEN done
    ELSE LET boot_method == CHOOSE b \in methods : \A o \in methods : b <= o
         IN  IF boot_method \in raising
             THEN [tried |-> done.tried \cup {boot_method},
                   logged |-> done.logged, returned |-> FALSE]
             ELSE link_each_stopping_at_failure(
                      methods \ {boot_method}, raising,
                      [tried |-> done.tried \cup {boot_method},
                       logged |-> done.logged, returned |-> TRUE])

RECURSIVE link_each(_, _, _)
link_each(methods, raising, done) ==
    IF methods = {} THEN done
    ELSE LET boot_method == CHOOSE b \in methods : \A o \in methods : b <= o
         IN  link_each(methods \ {boot_method}, raising,
                       [tried |-> done.tried \cup {boot_method},
                        logged |-> done.logged \cup
                                     ({boot_method} \cap raising),
                        returned |-> TRUE])

link_bootloaders(raising) ==
    link_each(BootMethods, raising,
              [tried |-> {}, logged |-> {}, returned |-> TRUE])

\* ------------------------------------------------- import_images, by step
\* Lines 261-271: a run starts; with no source it warns and returns False.
ImportImagesStart_without_source_check ==
    /\ UNCHANGED beside
    /\ pc \in {"idle", "done"}
    /\ runs < MaxRuns
    /\ runs' = runs + 1
    /\ \E empty \in BOOLEAN :
          /\ sources_empty' = empty
          /\ pc' = "fetch"
          /\ result' = "none"
    /\ failedAt' = "none"
    /\ meta_file_content' = NoText
    /\ snapshot_path' = NoSnapshot
    /\ staging' = NoSnapshot
    /\ startCurrent' = current
    /\ startSnapshots' = snapshots
    /\ startCache' = cache
    /\ prevCommitted' = IF result = "True" THEN meta_file_content ELSE NoText
    /\ tgtCalls' = 0
    /\ tgtTarget' = NoSnapshot
    /\ cleanupCalls' = 0
    /\ downloadCalls' = 0
    /\ metaResult' = "none"
    /\ linked' = FALSE
    /\ observed' = NotRead
    /\ steps' = <<>>
    /\ tgtOutcome' = "none"
    /\ cleanupOutcome' = "none"
    /\ linkTried' = {}
    /\ linkLogged' = {}
    /\ linkRaising' = {}
    /\ UNCHANGED <<disk, pointed, abandoned>>

import_images_begins ==
    /\ pc \in {"idle", "done"}
    /\ runs < MaxRuns
    /\ runs' = runs + 1
    /\ \E empty \in BOOLEAN :
          /\ sources_empty' = empty
          /\ IF empty
             THEN pc' = "done" /\ result' = "False"
             ELSE pc' = "fetch" /\ result' = "none"
    /\ failedAt' = "none"
    /\ meta_file_content' = NoText
    /\ snapshot_path' = NoSnapshot
    /\ staging' = NoSnapshot
    /\ startCurrent' = current
    /\ startSnapshots' = snapshots
    /\ startCache' = cache
    /\ prevCommitted' = IF result = "True" THEN meta_file_content ELSE NoText
    /\ tgtCalls' = 0
    /\ tgtTarget' = NoSnapshot
    /\ cleanupCalls' = 0
    /\ downloadCalls' = 0
    /\ metaResult' = "none"
    /\ linked' = FALSE
    /\ observed' = NotRead
    /\ steps' = <<>>
    /\ tgtOutcome' = "none"
    /\ cleanupOutcome' = "none"
    /\ linkTried' = {}
    /\ linkLogged' = {}
    /\ linkRaising' = {}
    /\ UNCHANGED <<disk, pointed, abandoned>>

\* import_images is called while nothing else runs.
ImportImagesStart ==
    /\ UNCHANGED beside
    /\ import_images_begins

\* Lines 297-308: download_all_image_descriptions; an empty catalog goes to
\* line 300, any other gives meta_file_content; a fetch error propagates.
DownloadDescriptions ==
    /\ UNCHANGED beside
    /\ UNCHANGED trace
    /\ pc = "fetch"
    /\ \/ /\ pc' = "empty_targets"
          /\ UNCHANGED <<meta_file_content, result, failedAt>>
       \/ /\ \E text \in Catalogs : meta_file_content' = text
          /\ pc' = "meta_contains"
          /\ UNCHANGED <<result, failedAt>>
       \/ /\ Raise("download_descriptions")
          /\ UNCHANGED meta_file_content
    /\ UNCHANGED <<disk, sources_empty, snapshot_path, staging, starts, counts,
                   linked, pointed, abandoned, observed>>

\* Lines 300-306: the targets of `current` are re-applied, return False.
EmptyUpdateTargets ==
    /\ UNCHANGED beside
    /\ UNCHANGED <<cleanupOutcome, links>>
    /\ pc = "empty_targets"
    /\ update_iscsi_targets(ResolveCurrent, "empty_return")
    /\ UNCHANGED <<snapshots, populated, metaFile, metaMtime, tgtFile, cache, current,
                   nextId, refs, locals, starts, cleanupCalls, downloadCalls,
                   metaResult, linked, pointed, abandoned, observed>>

\* Lines 309-316, the test: meta_contains touches `current`/maas.meta and
\* decides whether anything changed.
MetaContains_storing_candidate ==
    /\ UNCHANGED beside
    /\ UNCHANGED trace
    /\ pc = "meta_contains"
    /\ metaResult' = IF meta_contains(meta_file_content) THEN "True"
                     ELSE "False"
    /\ pc' = IF meta_contains(meta_file_content) THEN "unchanged_targets"
             ELSE "download"
    /\ utime_current_meta
    /\ metaFile' = IF ResolveCurrent # NoSnapshot
                       /\ metaFile[ResolveCurrent] # NoFile
                   THEN [metaFile EXCEPT
                           ![ResolveCurrent] = EncodeAscii(meta_file_content)]
                   ELSE metaFile
    /\ UNCHANGED <<snapshots, populated, tgtFile, cache, current, daemon,
                   nextId, refs, locals, starts, result, failedAt, tgtCalls,
                   tgtTarget, cleanupCalls, downloadCalls, linked, pointed,
                   abandoned, observed>>

MetaContains ==
    /\ UNCHANGED beside
    /\ UNCHANGED trace
    /\ pc = "meta_contains"
    /\ metaResult' = IF meta_contains(meta_file_content) THEN "True" ELSE "False"
    /\ pc' = IF meta_contains(meta_file_content) THEN "unchanged_targets"
             ELSE "download"
    /\ utime_current_meta
    /\ UNCHANGED <<snapshots, populated, metaFile, tgtFile, cache, current,
                   daemon, nextId, refs, locals, starts, result, failedAt, tgtCalls, tgtTarget,
                   cleanupCalls, downloadCalls, linked, pointed, abandoned,
                   observed>>

\* Lines 310-316: unchanged; the targets of `current` are re-applied.
UnchangedUpdateTargets ==
    /\ UNCHANGED beside
    /\ UNCHANGED <<cleanupOutcome, links>>
    /\ pc = "unchanged_targets"
    /\ update_iscsi_targets(ResolveCurrent, "unchanged_return")
    /\ UNCHANGED <<snapshots, populated, metaFile, metaMtime, tgtFile, cache, current,
                   nextId, refs, locals, starts, cleanupCalls, downloadCalls,
                   metaResult, linked, pointed, abandoned, observed>>

\* Lines 306 and 316: return False.
ReturnFalse ==
    /\ UNCHANGED beside
    /\ UNCHANGED trace
    /\ pc \in {"empty_return", "unchanged_return"}
    /\ pc' = "done"
    /\ result' = "False"
    /\ UNCHANGED <<disk, locals, starts, counts, failedAt, linked, pointed,
                   abandoned, observed>>

\* Lines 320-322, download_all_boot_resources entered: it names a new
\* snapshot directory after the time, creates it and starts filling it,
\* adding to the cache what the cache does not hold yet.
DownloadBegin ==
    /\ UNCHANGED beside
    /\ UNCHANGED trace
    /\ pc = "download"
    /\ staging' = nextId
    /\ nextId' = nextId + 1
    /\ snapshots' = snapshots \cup {nextId}
    /\ refs' = [refs EXCEPT ![nextId] = meta_file_content]
    /\ cache' = cache \cup {meta_file_content}
    /\ downloadCalls' = downloadCalls + 1
    /\ pc' = "downloading"
    /\ UNCHANGED <<populated, metaFile, metaMtime, tgtFile, current, daemon, sources_empty,
                   meta_file_content, snapshot_path, starts, result, failedAt,
                   tgtCalls, tgtTarget, cleanupCalls, metaResult, linked,
                   pointed, abandoned, observed>>

\* Line 321 returns: the directory is fully populated.
DownloadFinish ==
    /\ UNCHANGED beside
    /\ steps' = Append(steps, "download_all_boot_resources")
    /\ UNCHANGED <<outcomes, links>>
    /\ pc = "downloading"
    /\ populated' = populated \cup {staging}
    /\ snapshot_path' = staging
    /\ pc' = "write_meta"
    /\ UNCHANGED <<snapshots, metaFile, metaMtime, tgtFile, cache, current, daemon, nextId,
                   refs, sources_empty, meta_file_content, staging, starts,
                   counts, result, failedAt, linked, pointed, abandoned,
                   observed>>

\* Line 323: download_all_boot_resources raised, before it created the
\* directory or while it was filling it.
DownloadRaise ==
    /\ UNCHANGED beside
    /\ UNCHANGED trace
    /\ \/ /\ pc = "download"
          /\ downloadCalls' = downloadCalls + 1
       \/ /\ pc = "downloading"
          /\ UNCHANGED downloadCalls
    /\ pc' = "failed_targets"
    /\ failedAt' = "download"
    /\ UNCHANGED <<disk, locals, starts, result, tgtCalls, tgtTarget,
                   cleanupCalls, metaResult, linked, pointed, abandoned,
                   observed>>

\* Line 327, in the except clause: the targets of `current` are re-applied.
FailedUpdateTargets ==
    /\ UNCHANGED beside
    /\ UNCHANGED <<cleanupOutcome, links>>
    /\ pc = "failed_targets"
    /\ update_iscsi_targets(ResolveCurrent, "failed_cleanup")
    /\ UNCHANGED <<snapshots, populated, metaFile, metaMtime, tgtFile, cache, current,
                   nextId, refs, locals, starts, cleanupCalls, downloadCalls,
                   metaResult, linked, pointed, abandoned, observed>>

\* Lines 332-333: the failed snapshot and the cache are cleaned up, then the
\* download's exception is re-raised.
FailedCleanup ==
    /\ UNCHANGED beside
    /\ UNCHANGED <<tgtOutcome, links>>
    /\ pc = "failed_cleanup"
    /\ cleanup_snapshots_and_cache
    /\ Raise("download")
    /\ UNCHANGED <<current, daemon, nextId, locals, starts, tgtCalls,
                   tgtTarget, downloadCalls, metaResult, linked, pointed,
                   abandoned, observed>>

\* Line 336: maas.meta is written into the new snapshot, or the write raises.
WriteSnapshotMetadata_through_current ==
    /\ UNCHANGED beside
    /\ steps' = Append(steps, "write_snapshot_metadata")
    /\ UNCHANGED <<outcomes, links>>
    /\ pc = "write_meta"
    /\ write_snapshot_metadata(snapshot_path, meta_file_content)
    /\ current' = snapshot_path
    /\ pc' = "write_targets"
    /\ UNCHANGED <<runs, snapshots, populated, tgtFile, cache, daemon, nextId,
                   refs, locals, startCurrent, startSnapshots, startCache,
                   prevCommitted, counts, result, failedAt, linked, pointed,
                   abandoned, observed>>

WriteSnapshotMetadata ==
    /\ UNCHANGED beside
    /\ pc = "write_meta"
    /\ \/ /\ IsAscii(meta_file_content)
          /\ write_snapshot_metadata(snapshot_path, meta_file_content)
          /\ steps' = Append(steps, "write_snapshot_metadata")
          /\ pc' = "write_targets"
          /\ UNCHANGED <<result, failedAt>>
       \/ /\ Raise("write_snapshot_metadata")
          /\ UNCHANGED <<metaFile, metaMtime, steps>>
    /\ UNCHANGED <<outcomes, links>>
    /\ UNCHANGED <<snapshots, populated, tgtFile, cache, current, daemon,
                   nextId, refs, locals, starts, counts, linked, pointed,
                   abandoned, observed>>

\* Line 337: maas.tgt is written into the new snapshot, or the write raises.
WriteTargetsConf ==
    /\ UNCHANGED beside
    /\ pc = "write_targets"
    /\ \/ /\ write_targets_conf(snapshot_path)
          /\ steps' = Append(steps, "write_targets_conf")
          /\ pc' = "link_bootloaders"
          /\ UNCHANGED <<result, failedAt>>
       \/ /\ Raise("write_targets_conf")
          /\ UNCHANGED <<tgtFile, steps>>
    /\ UNCHANGED <<outcomes, links>>
    /\ UNCHANGED <<snapshots, populated, metaFile, metaMtime, cache, current, daemon,
                   nextId, refs, locals, starts, counts, linked, pointed,
                   abandoned, observed>>

\* Line 340: link_bootloaders(snapshot_path), with any set of boot methods
\* whose link_bootloader raises.
LinkBootloaders ==
    /\ UNCHANGED beside
    /\ pc = "link_bootloaders"
    /\ steps' = Append(steps, "link_bootloaders")
    /\ \E raising \in SUBSET BootMethods :
          LET call == link_bootloaders(raising)
          IN  /\ linkRaising' = raising
              /\ linkTried' = call.tried
              /\ linkLogged' = call.logged
              /\ IF call.returned
                 THEN /\ pc' = "update_current_symlink"
                      /\ UNCHANGED <<result, failedAt>>
                 ELSE Raise("link_bootloaders")
    /\ UNCHANGED <<disk, locals, starts, counts, linked, pointed, abandoned,
                   observed, outcomes>>

\* Line 343: `current` is repointed at the new snapshot, or the rename raises
\* and nothing is changed.
UpdateCurrentSymlink ==
    /\ UNCHANGED beside
    /\ pc = "update_current_symlink"
    /\ \/ /\ update_current_symlink(snapshot_path, "commit_targets")
          /\ UNCHANGED <<result, failedAt>>
       \/ /\ Raise("update_current_symlink")
          /\ UNCHANGED <<current, linked, pointed, steps>>
    /\ UNCHANGED <<outcomes, links>>
    /\ UNCHANGED <<snapshots, populated, metaFile, metaMtime, tgtFile, cache, daemon,
                   nextId, refs, locals, starts, counts, abandoned, observed>>

\* Line 345: the targets of the new snapshot are applied.
CommitUpdateTargets_rolling_back ==
    /\ UNCHANGED beside
    /\ pc = "commit_targets"
    /\ update_iscsi_targets(snapshot_path, "commit_cleanup")
    /\ current' = IF tgtOutcome' = "ok" THEN current ELSE startCurrent
    /\ UNCHANGED <<snapshots, populated, metaFile, metaMtime, tgtFile, cache,
                   nextId, refs, locals, starts, cleanupCalls, downloadCalls,
                   metaResult, linked, pointed, abandoned, observed,
                   cleanupOutcome, links>>

CommitUpdateTargets ==
    /\ UNCHANGED beside
    /\ UNCHANGED <<cleanupOutcome, links>>
    /\ pc = "commit_targets"
    /\ update_iscsi_targets(snapshot_path, "commit_cleanup")
    /\ UNCHANGED <<snapshots, populated, metaFile, metaMtime, tgtFile, cache, current,
                   nextId, refs, locals, starts, cleanupCalls, downloadCalls,
                   metaResult, linked, pointed, abandoned, observed>>

\* Lines 349-355: old snapshots and cache are cleaned up, return True; the
\* call is in no try, so what it raises leaves import_images.
CommitCleanup ==
    /\ UNCHANGED beside
    /\ pc = "commit_cleanup"
    /\ cleanup_snapshots_and_cache
    /\ IF cleanupOutcome' = "raised"
       THEN Raise("cleanup_snapshots_and_cache")
       ELSE /\ pc' = "done"
            /\ result' = "True"
            /\ UNCHANGED failedAt
    /\ UNCHANGED <<current, daemon, nextId, locals, starts, tgtCalls,
                   tgtTarget, downloadCalls, metaResult, linked, pointed,
                   abandoned, observed, tgtOutcome, links>>

\* ---------------------------------------------------------- beside the run
\* The process is killed in the middle of a run: whatever it had created
\* stays on disk. A directory left before line 343 ran is abandoned.
Kill ==
    /\ UNCHANGED beside
    /\ UNCHANGED trace
    /\ pc \notin {"idle", "done"}
    /\ pc' = "done"
    /\ result' = "killed"
    /\ abandoned' = IF ~linked /\ staging # NoSnapshot
                    THEN abandoned \cup {staging} ELSE abandoned
    /\ UNCHANGED <<disk, locals, starts, counts, failedAt, linked, pointed,
                   observed>>

\* Another process (the boot path) reads storage/current at any moment.
ReadCurrent ==
    /\ UNCHANGED beside
    /\ UNCHANGED trace
    /\ pc \notin {"idle", "done"}
    /\ observed' = [ptr |-> current,
                    whole |-> current = NoSnapshot \/ FullyWritten(current),
                    wasSet |-> everSet]
    /\ UNCHANGED <<disk, locals, starts, counts, pc, result, failedAt, linked,
                   pointed, abandoned>>

\* The pipeline: runs of import_images, one after the other, and kills.
Next ==
    \/ ImportImagesStart
    \/ DownloadDescriptions
    \/ EmptyUpdateTargets
    \/ MetaContains
    \/ UnchangedUpdateTargets
    \/ ReturnFalse
    \/ DownloadBegin
    \/ DownloadFinish
    \/ DownloadRaise
    \/ FailedUpdateTargets
    \/ FailedCleanup
    \/ WriteSnapshotMetadata
    \/ WriteTargetsConf
    \/ LinkBootloaders
    \/ UpdateCurrentSymlink
    \/ CommitUpdateTargets
    \/ CommitCleanup
    \/ Kill

Spec == Init /\ [][Next]_vars

\* The pipeline with a reader of `current` beside it.
NextReader == Next \/ ReadCurrent

SpecReader == Init /\ [][NextReader]_vars

\* meta_contains on its own: the call at line 309 with every candidate text,
\* on a cold storage and on one whose `current` snapshot holds every stored
\* text (the state a first import of that text leaves).
MetaStorages ==
    \E candidate \in Texts :
       \/ /\ runs = 1
          /\ snapshots = {}
          /\ populated = {}
          /\ metaFile = [s \in SnapshotIds |-> NoFile]
          /\ metaMtime = [s \in SnapshotIds |-> 0]
          /\ tgtFile = {}
          /\ cache = {}
          /\ current = NoSnapshot
          /\ daemon = NoSnapshot
          /\ nextId = 1
          /\ refs = [s \in SnapshotIds |-> NoText]
          /\ startCurrent = NoSnapshot
          /\ startSnapshots = {}
          /\ startCache = {}
          /\ everSet = FALSE
          /\ activated = [s \in SnapshotIds |-> 0]
          /\ prevCommitted = NoText
          /\ pc = "meta_contains"
          /\ meta_file_content = candidate
          /\ sources_empty = FALSE
          /\ snapshot_path = NoSnapshot
          /\ staging = NoSnapshot
          /\ result = "none"
          /\ failedAt = "none"
          /\ tgtCalls = 0
          /\ tgtTarget = NoSnapshot
          /\ cleanupCalls = 0
          /\ downloadCalls = 0
          /\ metaResult = "none"
          /\ linked = FALSE
          /\ abandoned = {}
          /\ observed = NotRead
          /\ steps = <<>>
          /\ tgtOutcome = "none"
          /\ cleanupOutcome = "none"
          /\ linkTried = {}
          /\ linkLogged = {}
          /\ linkRaising = {}
       \/ \E stored \in Texts :
          /\ runs = 2
          /\ snapshots = {1}
          /\ populated = {1}
          /\ metaFile = [s \in SnapshotIds |->
                           IF s = 1 THEN EncodeAscii(stored) ELSE NoFile]
          /\ metaMtime = [s \in SnapshotIds |-> IF s = 1 THEN 1 ELSE 0]
          /\ tgtFile = {1}
          /\ cache = {stored}
          /\ current = 1
          /\ daemon = 1
          /\ nextId = 2
          /\ refs = [s \in SnapshotIds |-> IF s = 1 THEN stored ELSE NoText]
          /\ startCurrent = 1
          /\ startSnapshots = {1}
          /\ startCache = {stored}
          /\ everSet = TRUE
          /\ activated = [s \in SnapshotIds |-> IF s = 1 THEN 1 ELSE 0]
          /\ prevCommitted = stored
          /\ pc = "meta_contains"
          /\ meta_file_content = candidate
          /\ sources_empty = FALSE
          /\ snapshot_path = NoSnapshot
          /\ staging = NoSnapshot
          /\ result = "none"
          /\ failedAt = "none"
          /\ tgtCalls = 0
          /\ tgtTarget = NoSnapshot
          /\ cleanupCalls = 0
          /\ downloadCalls = 0
          /\ metaResult = "none"
          /\ linked = FALSE
          /\ abandoned = {}
          /\ observed = NotRead
          /\ steps = <<>>
          /\ tgtOutcome = "none"
          /\ cleanupOutcome = "none"
          /\ linkTried = {}
          /\ linkLogged = {}
          /\ linkRaising = {}

InitMeta == MetaStorages /\ NoListing /\ OthersIdle

NextMeta == MetaContains

SpecMeta == InitMeta /\ [][NextMeta]_vars

\* ------------------------------------------------- compose_targets_conf
\* Python's < on str, by code point.
RECURSIVE StrLess(_, _)
StrLess(a, b) ==
    IF b = <<>> THEN FALSE
    ELSE IF a = <<>> THEN TRUE
    ELSE IF Head(a) # Head(b) THEN Head(a) < Head(b)
    ELSE StrLess(Tail(a), Tail(b))

\* Python's < on tuples of str: the first field that differs decides.
RECURSIVE TupleLess(_, _)
TupleLess(s, t) ==
    IF t = <<>> THEN FALSE
    ELSE IF s = <<>> THEN TRUE
    ELSE IF Head(s) # Head(t) THEN StrLess(Head(s), Head(t))
    ELSE TupleLess(Tail(s), Tail(t))

\* sorted(entries), line 147.
RECURSIVE sorted(_)
sorted(entries) ==
    IF entries = {} THEN <<>>
    ELSE LET least == CHOOSE e \in entries :
                         \A o \in entries \ {e} : TupleLess(e, o)
         IN  <<least>> \o sorted(entries \ {least})

\* Lines 139-147: the listed items' tuples are collected in a set, which is
\* then walked in sorted order.
RECURSIVE entries_as_listed(_)
entries_as_listed(items) ==
    IF items = <<>> THEN <<>>
    ELSE LET front == entries_as_listed(SubSeq(items, 1, Len(items) - 1))
             last == items[Len(items)]
         IN  IF \E i \in 1..Len(front) : front[i] = last
             THEN front ELSE Append(front, last)

\* Lines 139-147 with a list in place of the set: the listed items' tuples
\* in sorted order, one per item listed.
RECURSIVE entries_with_repeats(_)
entries_with_repeats(items) ==
    IF items = <<>> THEN <<>>
    ELSE LET least == CHOOSE i \in 1..Len(items) :
                         \A j \in 1..Len(items) :
                            ~TupleLess(items[j], items[i])
             rest == [j \in 1..(Len(items) - 1) |->
                        IF j < least THEN items[j] ELSE items[j + 1]]
         IN  <<items[least]>> \o entries_with_repeats(rest)

entries_in_order(items) == sorted({items[i] : i \in 1..Len(items)})

\* 'ephemeral-%s-%s-%s-%s-%s' % (osystem, arch, subarch, release, label),
\* lines 83-90, after "ephemeral": each field behind a "-" (code point 45).
RECURSIVE target_name(_)
target_name(fields) ==
    IF fields = <<>> THEN <<>>
    ELSE <<45>> \o Head(fields) \o target_name(Tail(fields))

\* tgt_entry(osystem, arch, subarch, release, label, image): the text block
\* of one target, which is fixed but for the target name and the image path.
tgt_entry(fields, image) ==
    [target |-> target_name(fields), backing_store |-> image]

\* Lines 148-161: for each tuple in turn, an entry for its root-image if
\* that is a file, then one for its squashfs if that is a file.
\* The snapshot_path compose_targets_conf is given: "/s", one absolute
\* component.
SnapshotPath == <<<<47, 115>>>>

\* os.path.join(a, *p) on components: a component that begins with "/"
\* (code point 47) discards what came before it.
RECURSIVE os_path_join(_, _)
os_path_join(a, p) ==
    IF p = <<>> THEN a
    ELSE IF Head(p) # <<>> /\ Head(Head(p)) = 47
         THEN os_path_join(<<Head(p)>>, Tail(p))
         ELSE os_path_join(Append(a, Head(p)), Tail(p))

RECURSIVE tgt_entries(_, _)
tgt_entries(ordered, files) ==
    IF ordered = <<>> THEN <<>>
    ELSE LET t == Head(ordered)
             base_path == os_path_join(SnapshotPath, t)
             root_image == [base_path |-> base_path, name |-> "root-image"]
             squashfs_image == [base_path |-> base_path, name |-> "squashfs"]
         IN  (IF "root-image" \in files[t]
              THEN <<tgt_entry(t, root_image)>> ELSE <<>>)
             \o (IF "squashfs" \in files[t]
                 THEN <<tgt_entry(t, squashfs_image)>> ELSE <<>>)
             \o tgt_entries(Tail(ordered), files)

\* compose_targets_conf(snapshot_path): ''.join(tgt_entries), kept as the
\* sequence of the blocks joined.
compose_targets_conf(items, files) ==
    tgt_entries(entries_in_order(items), files)

\* A snapshot's image directories with any image files in them, listed by
\* list_boot_images in any order and with any repetition, twice.
InitTargets ==
    /\ ColdStorage
    /\ listing \in Listings
    /\ relisting \in Listings
    /\ {relisting[i] : i \in 1..Len(relisting)}
         = {listing[i] : i \in 1..Len(listing)}
    /\ images \in [ImageTuples -> SUBSET ImageFiles]
    /\ \A t \in ImageTuples :
          images[t] # {} => \E i \in 1..Len(listing) : listing[i] = t
    /\ conf = NotComposed
    /\ reconf = NotComposed
    /\ OthersIdle

\* compose_targets_conf is called for the snapshot, once per listing.
ComposeTargetsConf ==
    /\ conf = NotComposed
    /\ conf' = compose_targets_conf(listing, images)
    /\ reconf' = compose_targets_conf(relisting, images)
    /\ UNCHANGED <<listing, relisting, images>>
    /\ UNCHANGED <<pipeline, others>>

NextTargets == ComposeTargetsConf

SpecTargets == InitTargets /\ [][NextTargets]_vars

\* ------------------------------------------------------------- the claims
\* A run that has ended by returning or raising (not by a kill).
RunEnded == pc = "done" /\ result \in {"True", "False", "raised"}

\* The run ended because download_all_boot_resources raised.
DownloadFailed == RunEnded /\ failedAt = "download"

\* The run ended because line 336 or line 337 raised.
ControlFileFailed ==
    RunEnded /\ failedAt \in {"write_snapshot_metadata", "write_targets_conf"}

\* C1: once `current` has been set it is never missing again and always names
\* a snapshot on disk whose content, maas.meta and maas.tgt are all written.
C1_CurrentFullyWritten ==
    everSet => (current # NoSnapshot /\ FullyWritten(current))

\* C1's case: `current` was repointed from one complete snapshot to the next.
C1_Witness ==
    /\ startCurrent # NoSnapshot
    /\ current # startCurrent
    /\ FullyWritten(current)

\* C2: whatever a reader sees through `current` while a run is under way is
\* the snapshot that was active when the run started or the run's new
\* snapshot, fully written when seen, and never "no current" once one was set.
C2_ReaderSeesOldOrNew ==
    observed # NotRead =>
        /\ observed.ptr \in {startCurrent, staging}
        /\ observed.whole
        /\ observed.wasSet => observed.ptr # NoSnapshot

\* C2's case: with an old snapshot active, the reader saw the new one.
C2_Witness ==
    /\ observed # NotRead
    /\ startCurrent # NoSnapshot
    /\ observed.ptr = snapshot_path
    /\ observed.ptr # startCurrent

\* C3: a run killed before line 343 leaves `current` where it was when the
\* run started, and `current` never names a directory such a run left behind.
C3_KillKeepsCurrent ==
    /\ (pc = "done" /\ result = "killed" /\ ~linked) => current = startCurrent
    /\ current \notin abandoned

\* C3's case: after a kill left a directory behind, a later run committed.
C3_Witness ==
    /\ abandoned # {}
    /\ pc = "done"
    /\ result = "True"
    /\ current # NoSnapshot

\* C4, as claimed: after a failed download the storage holds the same
\* snapshots and the same `current` as before the run, and no more cache
\* entries.
C4_RollbackRestoresStorage ==
    DownloadFailed =>
        /\ snapshots = startSnapshots
        /\ current = startCurrent
        /\ Cardinality(cache) <= Cardinality(startCache)

\* C5, as claimed: when the download raised, by the end of the run the
\* cleanup was invoked, the targets were re-applied against the snapshot
\* that was active before, and the run raised.
C5_DownloadFailureHandled ==
    DownloadFailed =>
        /\ cleanupCalls = 1
        /\ staging \notin snapshots \ {current}
        /\ tgtCalls = 1
        /\ tgtTarget = startCurrent
        /\ result = "raised"

\* C6, as claimed: when writing a control file raised, the staging directory
\* and the cache entry only it used are gone by the end of the run,
\* `current` is untouched and the run raised.
C6_ControlFileFailureCleansUp ==
    ControlFileFailed =>
        /\ snapshot_path \notin snapshots
        /\ \A e \in cache : \E s \in snapshots \ {snapshot_path} : refs[s] = e
        /\ current = startCurrent
        /\ result = "raised"

\* C7, as claimed: when writing a control file raised, the targets were
\* still re-applied against the snapshot that was active before.
C7_ControlFileFailureReappliesTargets ==
    ControlFileFailed =>
        /\ tgtCalls >= 1
        /\ tgtTarget = startCurrent

\* The outcomes of a run in which update_iscsi_targets has a call site on
\* the path taken: empty catalog, unchanged, download failure, commit.
EmptyCatalogOutcome ==
    RunEnded /\ ~sources_empty /\ meta_file_content = NoText
             /\ failedAt # "download_descriptions"
UnchangedOutcome == RunEnded /\ metaResult = "True"
CommitOutcome == RunEnded /\ linked

C9_SameCatalogIsNoOp ==
    (prevCommitted # NoText /\ meta_file_content = prevCommitted
        /\ metaResult # "none") =>
        /\ metaResult = "True"
        /\ downloadCalls = 0
        /\ snapshots = startSnapshots
        /\ current = startCurrent

\* C9's case: the second of two runs with the same catalog has returned.
C9_Witness ==
    /\ prevCommitted # NoText
    /\ meta_file_content = prevCommitted
    /\ pc = "done"
    /\ result = "False"

\* Right after line 309: the stored text, if `current`/maas.meta is a file.
StoredMeta == IF ResolveCurrent = NoSnapshot THEN NoFile
              ELSE metaFile[ResolveCurrent]

\* C10: meta_contains answers True exactly when `current`/maas.meta exists
\* and has the candidate's length and the candidate's byte at every position.
C10_MetaContainsExact ==
    pc \in {"unchanged_targets", "download"} =>
        (metaResult = "True" <=>
            /\ StoredMeta # NoFile
            /\ Len(StoredMeta) = Len(meta_file_content)
            /\ \A i \in 1..Len(meta_file_content) :
                  StoredMeta[i] = meta_file_content[i])

\* C10's case: a stored text that starts like the candidate and differs
\* later was reported as changed.
C10_Witness ==
    /\ pc = "download"
    /\ StoredMeta # NoFile
    /\ Len(StoredMeta) = Len(meta_file_content)
    /\ StoredMeta[1] = meta_file_content[1]
    /\ StoredMeta # meta_file_content
    /\ metaResult = "False"

\* C11: a run whose catalog meta_contains found unchanged re-applies the
\* targets of `current` once and then returns False, having downloaded
\* nothing, written no control file, left `current` where it was and not
\* called cleanup_snapshots_and_cache.
C11_UnchangedRunReturnsFalse ==
    UnchangedOutcome =>
        /\ result = "False"
        /\ steps = <<"update_iscsi_targets">>
        /\ tgtCalls = 1
        /\ tgtTarget = startCurrent
        /\ downloadCalls = 0
        /\ cleanupCalls = 0
        /\ current = startCurrent
        /\ snapshots = startSnapshots

\* C12: a run whose catalog came back empty raises nothing: it re-applies
\* the targets of `current`, downloads and commits nothing, leaves the
\* snapshots and `current` as they were, and returns False.
C12_EmptyCatalogReturnsFalse ==
    EmptyCatalogOutcome =>
        /\ result = "False"
        /\ tgtCalls = 1
        /\ tgtTarget = startCurrent
        /\ downloadCalls = 0
        /\ cleanupCalls = 0
        /\ steps = <<"update_iscsi_targets">>
        /\ current = startCurrent
        /\ snapshots = startSnapshots

\* Lines 320-355 in the order import_images makes the calls.
CommitSteps ==
    <<"download_all_boot_resources", "write_snapshot_metadata",
      "write_targets_conf", "link_bootloaders", "update_current_symlink",
      "update_iscsi_targets", "cleanup_snapshots_and_cache">>

\* The position of a step among the calls made so far (0: not made).
StepAt(step) ==
    IF \E i \in 1..Len(steps) : steps[i] = step
    THEN CHOOSE i \in 1..Len(steps) : steps[i] = step
    ELSE 0

\* C13: in a run that repoints `current` the calls of lines 320-355 are
\* made in the order of CommitSteps, each once and none entered again:
\* from the moment the download has completed the calls made so far are an
\* initial part of CommitSteps, `current` is repointed only after both
\* control files were written and before the clean-up, and when the run
\* ends all seven calls have been made.
C13_CommitStepsInOrder ==
    /\ snapshot_path # NoSnapshot =>
          /\ Len(steps) <= Len(CommitSteps)
          /\ steps = SubSeq(CommitSteps, 1, Len(steps))
    /\ linked =>
          /\ 0 < StepAt("write_snapshot_metadata")
          /\ StepAt("write_snapshot_metadata")
                < StepAt("update_current_symlink")
          /\ 0 < StepAt("write_targets_conf")
          /\ StepAt("write_targets_conf") < StepAt("update_current_symlink")
    /\ (linked /\ cleanupCalls > 0) =>
          StepAt("update_current_symlink")
            < StepAt("cleanup_snapshots_and_cache")
    /\ CommitOutcome => steps = CommitSteps

\* C14: once update_current_symlink has repointed `current` in a run,
\* `current` names the new snapshot for the rest of the run and at its end,
\* whatever update_iscsi_targets and cleanup_snapshots_and_cache do or raise
\* afterwards, and that snapshot stays on disk.
C14_CommitIsNotUndone ==
    linked =>
        /\ current = snapshot_path
        /\ snapshot_path # NoSnapshot
        /\ snapshot_path \in snapshots

\* C14's case: `current` was repointed away from an older snapshot and a
\* later step of the run raised.
C14_Witness ==
    /\ linked
    /\ pc = "done"
    /\ result = "raised"
    /\ failedAt \in {"update_targets", "cleanup_snapshots_and_cache"}
    /\ startCurrent # NoSnapshot
    /\ current = snapshot_path
    /\ current # startCurrent

\* The last update_targets_conf call met a daemon failure: tgt did not become
\* ready within the wait, or tgt-admin rejected the update.
TargetDaemonFailed == tgtOutcome \in {"not_ready", "ExternalProcessError"}

\* C15: a daemon failure of either kind is only a warning: update_targets_conf
\* does not raise, and a run that has repointed `current` goes on to
\* cleanup_snapshots_and_cache and returns True.
C15_TargetFailureIsWarning ==
    /\ TargetDaemonFailed => failedAt # "update_targets"
    /\ (CommitOutcome /\ TargetDaemonFailed) =>
          /\ cleanupCalls = 1
          /\ result = "True"

\* C16: cleanup_snapshots_and_cache raising after `current` was repointed is
\* only a warning: the run still returns True.
C16_CleanupFailureIsWarning ==
    (CommitOutcome /\ cleanupOutcome = "raised") =>
        /\ result = "True"
        /\ failedAt = "none"

\* link_bootloaders has been called in this run.
BootloadersLinked == StepAt("link_bootloaders") > 0

\* C17: whichever boot methods' link_bootloader raise, link_bootloaders calls
\* link_bootloader for every boot method of the registry, reports exactly
\* the ones that raised and returns: the run does not end there, and its
\* next call is update_current_symlink.
C17_LinkFailuresDoNotAbort ==
    BootloadersLinked =>
        /\ linkTried = BootMethods
        /\ linkLogged = linkRaising
        /\ failedAt # "link_bootloaders"
        /\ \/ pc = "update_current_symlink"
           \/ StepAt("update_current_symlink")
                = StepAt("link_bootloaders") + 1
           \/ failedAt = "update_current_symlink"
           \/ result = "killed"

\* C17's case: the first boot method's link_bootloader raised, the later
\* ones were still tried, and `current` was repointed.
C17_Witness ==
    /\ linked
    /\ 1 \in linkRaising
    /\ linkTried = BootMethods
    /\ BootMethods \ {1} # {}
    /\ current = snapshot_path

\* C18: compose_targets_conf gives the same output for two listings of the
\* same snapshot that name the same images, in whatever order and however
\* many times each, and its entries are in the sorted order of their
\* (osystem, arch, subarch, release, label) tuples.
C18_ComposeIsDeterministic ==
    conf # NotComposed =>
        /\ conf = reconf
        /\ \A i, j \in 1..Len(conf) :
              i < j => ~TupleLess(conf[j].backing_store.base_path,
                                  conf[i].backing_store.base_path)

\* C18's case: the two listings differ in order and in length, and the
\* output has entries of several tuples.
C18_Witness ==
    /\ conf # NotComposed
    /\ Len(listing) # Len(relisting)
    /\ Len(listing) > 0
    /\ listing[1] # relisting[1]
    /\ \E i, j \in 1..Len(conf) :
          conf[i].backing_store.base_path # conf[j].backing_store.base_path

\* C19: no two entries of compose_targets_conf's output carry the same
\* target name, whatever image files the image directories hold.
C19_TargetNamesDistinct ==
    conf # NotComposed =>
        \A i, j \in 1..Len(conf) :
            i # j => conf[i].target # conf[j].target

\* C20: when the snapshot given to update_targets_conf holds no maas.tgt
\* (`current` not existing included), the call returns without raising and
\* without running tgt-admin.
C20_MissingTargetsFileSkipped ==
    (tgtCalls > 0 /\ tgtTarget \notin tgtFile) =>
        /\ tgtOutcome = "no_targets_file"
        /\ failedAt # "update_targets"

\* The snapshot directories that were there during this run and are gone,
\* and the cache entries likewise: only cleanup_snapshots_and_cache removes
\* either.
Reaped == (startSnapshots \cup ({staging} \ {NoSnapshot})) \ snapshots
ReapedCache == (startCache \cup ({meta_file_content} \ {NoText})) \ cache

\* C21: whenever import_images has called cleanup_snapshots_and_cache (line
\* 332 or line 349), the snapshot `current` names is still on disk, however
\* old it is next to the others, and every cache entry that was removed is
\* linked by no snapshot that remains.
C21_ReaperKeepsCurrent ==
    cleanupCalls > 0 =>
        /\ current \notin Reaped
        /\ current # NoSnapshot => current \in snapshots
        /\ \A e \in ReapedCache : \A s \in snapshots : refs[s] # e

\* C21's case: after a download failure the partial, newer snapshot and its
\* cache entry were removed and the older snapshot `current` names was kept.
C21_Witness ==
    /\ cleanupCalls > 0
    /\ failedAt = "download"
    /\ current # NoSnapshot
    /\ current \in snapshots
    /\ staging \in Reaped
    /\ current < staging
    /\ ReapedCache # {}

\* What became of a snapshot `current` has named: while it is on disk its
\* image content, its maas.tgt and the bytes of its maas.meta are what the
\* run that committed it wrote; once it is gone `current` names another one,
\* and if it went in this run cleanup_snapshots_and_cache has been called.
ActivatedKept(s) ==
    /\ s \in snapshots =>
          /\ s \in populated
          /\ s \in tgtFile
          /\ refs[s] # NoText
          /\ metaFile[s] = EncodeAscii(refs[s])
    /\ s \notin snapshots =>
          /\ current # s
          /\ s \in startSnapshots \cup {staging} => cleanupCalls > 0

\* C22, as claimed: a snapshot that was activated is as the commit wrote it,
\* the timestamp of its maas.meta included, until the clean-up removes it,
\* which it never does while `current` names it.
C22_ActivatedSnapshotUntouched ==
    \A s \in SnapshotIds :
        activated[s] # 0 =>
            /\ ActivatedKept(s)
            /\ s \in snapshots => metaMtime[s] = activated[s]

\* C22, amended: a snapshot that was activated keeps its content, its
\* maas.tgt and the bytes of its maas.meta until the clean-up removes it,
\* which it never does while `current` names it; the timestamp of its
\* maas.meta is the commit's or that of a later run (meta_contains touches
\* the file of the snapshot `current` names).
C22_ActivatedContentKept ==
    \A s \in SnapshotIds :
        activated[s] # 0 =>
            /\ ActivatedKept(s)
            /\ s \in snapshots =>
                  /\ activated[s] <= metaMtime[s]
                  /\ metaMtime[s] <= runs

\* C22's case: an unchanged run has gone over a snapshot that an earlier run
\* activated, and only the timestamp of its maas.meta has moved.
C22_Witness ==
    /\ pc = "done"
    /\ result = "False"
    /\ metaResult = "True"
    /\ current \in snapshots
    /\ activated[current] # 0
    /\ activated[current] < metaMtime[current]
    /\ metaFile[current] = EncodeAscii(refs[current])

\* C23: a directory left half-populated by a killed run is gone once the
\* next run has started, however that run goes on, and the next run never
\* takes it for its own snapshot.
C23_AbandonedStagingRemoved ==
    (pc \notin {"idle", "done"} \/ RunEnded) =>
        /\ abandoned \cap snapshots = {}
        /\ staging \notin abandoned
        /\ snapshot_path \notin abandoned

\* C28: in a run whose download failed, the rollback has cleaned up
\* (cleanup_snapshots_and_cache) before it re-applies the target registrar
\* (update_iscsi_targets).
C28_CleanupBeforeRegistrar ==
    (failedAt = "download" /\ StepAt("update_iscsi_targets") # 0) =>
        /\ StepAt("cleanup_snapshots_and_cache") # 0
        /\ StepAt("cleanup_snapshots_and_cache")
             < StepAt("update_iscsi_targets")

\* C30: a run given an empty source list has returned False without calling
\* the catalog fetcher, the downloader, the target registrar or the reaper,
\* and the storage (snapshots, `current`, cache, maas.meta timestamps) is as
\* it was when the run began.
C30_EmptySourcesTouchNothing ==
    (runs > 0 /\ sources_empty) =>
        /\ pc = "done"
        /\ result = "False"
        /\ meta_file_content = NoText
        /\ metaResult = "none"
        /\ downloadCalls = 0
        /\ tgtCalls = 0
        /\ cleanupCalls = 0
        /\ steps = <<>>
        /\ snapshots = startSnapshots
        /\ current = startCurrent
        /\ cache = startCache
        /\ \A s \in snapshots : metaMtime[s] < runs

C30_Witness ==
    /\ sources_empty
    /\ pc = "done"
    /\ result = "False"
    /\ current # NoSnapshot
    /\ current \in snapshots
    /\ cache # {}
    /\ metaMtime[current] < runs

\* C29: every call of meta_contains that finds `current`/maas.meta sets
\* that file's timestamp to now, whether the candidate matches it or not,
\* and the call changes nothing else: not the file's content, not
\* `current`, not the set of snapshots.
C29_MetaContainsOnlyTouches ==
    [][(pc = "meta_contains" /\ pc' \in {"unchanged_targets", "download"}) =>
          /\ \A s \in SnapshotIds :
                metaMtime'[s] = IF s = current /\ s \in snapshots
                                   /\ metaFile[s] # NoFile
                                THEN runs ELSE metaMtime[s]
          /\ metaFile' = metaFile
          /\ current' = current
          /\ snapshots' = snapshots
          /\ populated' = populated
          /\ tgtFile' = tgtFile
          /\ cache' = cache
          /\ refs' = refs]_vars

C29_Witness ==
    /\ pc = "download"
    /\ metaResult = "False"
    /\ current \in snapshots
    /\ metaFile[current] # NoFile
    /\ activated[current] < runs
    /\ metaMtime[current] = runs

\* ------------------------------------------ main and main_with_services
\* The storage after a run that imported catalog "A" into a cold storage and
\* returned True.
WarmStorage ==
    /\ runs = 1
    /\ snapshots = {1}
    /\ populated = {1}
    /\ metaFile = [s \in SnapshotIds |->
                     IF s = 1 THEN EncodeAscii(<<65>>) ELSE NoFile]
    /\ metaMtime = [s \in SnapshotIds |-> IF s = 1 THEN 1 ELSE 0]
    /\ tgtFile = {1}
    /\ cache = {<<65>>}
    /\ current = 1
    /\ daemon = 1
    /\ nextId = 2
    /\ pc = "done"
    /\ sources_empty = FALSE
    /\ meta_file_content = <<65>>
    /\ snapshot_path = 1
    /\ staging = 1
    /\ refs = [s \in SnapshotIds |-> IF s = 1 THEN <<65>> ELSE NoText]
    /\ result = "True"
    /\ failedAt = "none"
    /\ startCurrent = NoSnapshot
    /\ startSnapshots = {}
    /\ startCache = {}
    /\ tgtCalls = 1
    /\ tgtTarget = 1
    /\ cleanupCalls = 1
    /\ downloadCalls = 1
    /\ metaResult = "False"
    /\ linked = TRUE
    /\ everSet = TRUE
    /\ activated = [s \in SnapshotIds |-> IF s = 1 THEN 1 ELSE 0]
    /\ abandoned = {}
    /\ prevCommitted = NoText
    /\ observed = NotRead
    /\ steps = <<"download_all_boot_resources", "write_snapshot_metadata",
                 "write_targets_conf", "link_bootloaders",
                 "update_current_symlink", "update_iscsi_targets",
                 "cleanup_snapshots_and_cache">>
    /\ tgtOutcome = "ok"
    /\ cleanupOutcome = "ok"
    /\ linkTried = BootMethods
    /\ linkLogged = {}
    /\ linkRaising = {}

\* How BootSources.load(filename=sources_yaml) can end: with the sources, or
\* with an exception (IOError and OSError are distinct classes here; an
\* unparsable file raises neither).
LoadOutcomes ==
    {Returned,
     Exc("IOError", "ENOENT", 0),
     Exc("IOError", "EACCES", 0),
     Exc("OSError", "ENOENT", 0),
     Exc("ValueError", "none", 0)}

\* read_sources' except clause, lines 241-247: what leaves read_sources when
\* BootSources.load raised `ex`.
read_sources_any_ioerror(ex) ==
    IF ex.type = "IOError" THEN Exc("NoConfigFile", "none", 0) ELSE ex

read_sources(ex) ==
    IF ex.type = "IOError"
    THEN IF ex.errno = "ENOENT"
         THEN Exc("NoConfigFile", "none", 0)
         ELSE ex
    ELSE ex

\* max(exit_codes), line 435.
min(codes) == CHOOSE c \in codes : \A o \in codes : c <= o

max(codes) == CHOOSE c \in codes : \A o \in codes : o <= c

\* start_services up to the retry loop, lines 392-397.
StartServices ==
    /\ mpc = "boot"
    /\ mpc' = "connecting"
    /\ mlog' = Append(mlog, "startService")
    /\ UNCHANGED <<attempts, loaded, loadCalls, importCalls, main_raised,
                   caught, exit_codes, exit_code>>
    /\ UNCHANGED <<pipeline, beside_main>>

\* One round of the loop of lines 399-405: a client breaks out of it,
\* NoConnectionsAvailable pauses and goes round, any other exception leaves
\* start_services.
GetRegionClient ==
    /\ mpc = "connecting"
    /\ attempts < MaxAttempts
    /\ attempts' = attempts + 1
    /\ \E outcome \in {"client", "NoConnectionsAvailable", "Exception"} :
          /\ mlog' = Append(mlog, outcome)
          /\ mpc' = CASE outcome = "client" -> "main"
                      [] outcome = "NoConnectionsAvailable" -> "connecting"
                      [] OTHER -> "except"
          /\ caught' = IF outcome = "Exception"
                       THEN Exc("Exception", "none", 0) ELSE caught
    /\ UNCHANGED <<loaded, loadCalls, importCalls, main_raised, exit_codes,
                   exit_code>>
    /\ UNCHANGED <<pipeline, beside_main>>

\* The loop's else clause, lines 406-408: retries() has run out of time
\* (after one round at least) and nothing broke out of the loop.
RetriesExhausted ==
    /\ mpc = "connecting"
    /\ attempts >= 1
    /\ caught' = Exc("SystemExit", "none", 1)
    /\ mpc' = "except"
    /\ UNCHANGED <<attempts, loaded, loadCalls, importCalls, main_raised,
                   exit_codes, exit_code, mlog>>
    /\ UNCHANGED <<pipeline, beside_main>>

\* main up to its call of import_images: read_sources(args.sources_file).
MainReadSources ==
    /\ mpc = "main"
    /\ loadCalls' = loadCalls + 1
    /\ mlog' = Append(mlog, "main")
    /\ \E load \in LoadOutcomes :
          /\ loaded' = load
          /\ IF load = Returned
             THEN /\ mpc' = "import_images"
                  /\ UNCHANGED main_raised
             ELSE /\ mpc' = "stop_services"
                  /\ main_raised' = read_sources(load)
    /\ UNCHANGED <<attempts, importCalls, caught, exit_codes, exit_code>>
    /\ UNCHANGED <<pipeline, beside_main>>

\* main calls import_images(sources=sources), line 366.
MainImportImages ==
    /\ mpc = "import_images"
    /\ mpc' = "importing"
    /\ importCalls' = importCalls + 1
    /\ import_images_begins
    /\ UNCHANGED <<attempts, loaded, loadCalls, main_raised, caught,
                   exit_codes, exit_code, mlog>>
    /\ UNCHANGED beside_main

\* import_images runs to its return or to the exception that leaves it.
ImportImagesRuns ==
    /\ mpc = "importing"
    /\ pc # "done"
    /\ \/ DownloadDescriptions
       \/ EmptyUpdateTargets
       \/ MetaContains
       \/ UnchangedUpdateTargets
       \/ ReturnFalse
       \/ DownloadBegin
       \/ DownloadFinish
       \/ DownloadRaise
       \/ FailedUpdateTargets
       \/ FailedCleanup
       \/ WriteSnapshotMetadata
       \/ WriteTargetsConf
       \/ LinkBootloaders
       \/ UpdateCurrentSymlink
       \/ CommitUpdateTargets
       \/ CommitCleanup

\* main returns what import_images returned, or its exception goes on to
\* deferToThread's caller.
MainReturns ==
    /\ mpc = "importing"
    /\ pc = "done"
    /\ main_raised' = IF result = "raised"
                      THEN Exc("Exception", "none", 0) ELSE Returned
    /\ mpc' = "stop_services"
    /\ UNCHANGED <<attempts, loaded, loadCalls, importCalls, caught,
                   exit_codes, exit_code, mlog>>
    /\ UNCHANGED <<pipeline, beside_main>>

\* The finally clause of lines 420-423: stop_services runs whether main
\* returned or raised; an exception of its own replaces main's.
StopServices_unless_main_raised ==
    /\ mpc = "stop_services"
    /\ IF main_raised = Returned
       THEN /\ mlog' = Append(mlog, "stopService")
            /\ \E stopService \in {"ok", "raised"} :
                  caught' = IF stopService = "raised"
                            THEN Exc("Exception", "none", 0) ELSE main_raised
       ELSE /\ caught' = main_raised
            /\ UNCHANGED mlog
    /\ mpc' = "except"
    /\ UNCHANGED <<attempts, loaded, loadCalls, importCalls, main_raised,
                   exit_codes, exit_code>>
    /\ UNCHANGED <<pipeline, beside_main>>

StopServices ==
    /\ mpc = "stop_services"
    /\ mlog' = Append(mlog, "stopService")
    /\ \E stopService \in {"ok", "raised"} :
          caught' = IF stopService = "raised"
                    THEN Exc("Exception", "none", 0) ELSE main_raised
    /\ mpc' = "except"
    /\ UNCHANGED <<attempts, loaded, loadCalls, importCalls, main_raised,
                   exit_codes, exit_code>>
    /\ UNCHANGED <<pipeline, beside_main>>

\* run_main's except and finally clauses, lines 424-431: a SystemExit adds
\* its code, any other exception adds 2, and the reactor is told to stop.
RunMainExcept ==
    /\ mpc = "except"
    /\ exit_codes' = IF caught.type = "SystemExit"
                     THEN exit_codes \cup {caught.code}
                     ELSE IF caught.type # "none"
                          THEN exit_codes \cup {2}
                          ELSE exit_codes
    /\ mlog' = Append(mlog, "reactor.stop")
    /\ mpc' = "reactor_stopping"
    /\ UNCHANGED <<attempts, loaded, loadCalls, importCalls, main_raised,
                   caught, exit_code>>
    /\ UNCHANGED <<pipeline, beside_main>>

\* reactor.run() returns and lines 435-436 raise SystemExit(max(exit_codes)).
RaiseSystemExit ==
    /\ mpc = "reactor_stopping"
    /\ exit_code' = max(exit_codes)
    /\ mpc' = "exit"
    /\ UNCHANGED <<attempts, loaded, loadCalls, importCalls, main_raised,
                   caught, exit_codes, mlog>>
    /\ UNCHANGED <<pipeline, beside_main>>

InitMain == (ColdStorage \/ WarmStorage) /\ NoListing /\ OthersIdle

NextMain ==
    \/ StartServices
    \/ GetRegionClient
    \/ RetriesExhausted
    \/ MainReadSources
    \/ MainImportImages
    \/ ImportImagesRuns
    \/ MainReturns
    \/ StopServices
    \/ RunMainExcept
    \/ RaiseSystemExit

SpecMain == InitMain /\ [][NextMain]_vars

\* The script's process is scheduled until it exits.
SpecMainFair == SpecMain /\ WF_vars(NextMain)

C25_AlwaysExitsWithMaxCode ==
    /\ <>(mpc = "exit")
    /\ [](mpc = "exit" =>
            /\ exit_code \in exit_codes
            /\ \A c \in exit_codes : c <= exit_code
            /\ caught = Returned => exit_code = 0
            /\ caught.type = "SystemExit" => (exit_code = 1 /\ loadCalls = 0)
            /\ main_raised.type \notin {"none", "not called"}
                  => exit_code # 0
            /\ result = "raised" /\ importCalls = 1 => exit_code # 0)

C25_Witness ==
    /\ mpc = "exit"
    /\ importCalls = 1
    /\ result = "raised"
    /\ failedAt = "download"
    /\ exit_codes = {0, 2}
    /\ exit_code = 2

\* ----------------------------------------- retry_on_serialization_failure
\* `for _ in xrange(9)`: the rounds of retrier's loop.
Rounds == 9

\* An exception with its causes: the exception raised first, then its
\* __cause__, then that one's, to the one that has none.  Of each, its
\* class, whether it is a psycopg2.Error, and its pgcode.
Link(class, psycopg2, pgcode) ==
    [class |-> class, psycopg2 |-> psycopg2, pgcode |-> pgcode]
DjangoOperationalError == Link("OperationalError", FALSE, "none")
DjangoIntegrityError == Link("IntegrityError", FALSE, "none")
SerializationFailure == Link("SerializationFailure", TRUE, "40001")
DeadlockDetected == Link("TransactionRollbackError", TRUE, "40P01")
ValueError == Link("ValueError", FALSE, "none")
\* What func raises in the model.
FuncExceptions ==
    {<<DjangoOperationalError>>,
     <<DjangoOperationalError, SerializationFailure>>,
     <<DjangoOperationalError, DeadlockDetected>>,
     <<DjangoOperationalError, SerializationFailure, ValueError>>,
     <<DjangoOperationalError, ValueError, SerializationFailure>>,
     <<DjangoIntegrityError, SerializationFailure>>,
     <<ValueError>>}
\* What func returns in the model.
FuncValues == {1, 2}

\* No exception (Python's None).
None == <<>>

\* get_psycopg2_exception(exception): follow __cause__ to the exception that
\* has none, and return that one if it is a psycopg2.Error.
RECURSIVE get_psycopg2_exception(_)
get_psycopg2_exception(exception) ==
    IF Len(exception) > 1
    THEN get_psycopg2_exception(Tail(exception))
    ELSE IF exception[1].psycopg2 THEN exception ELSE None

\* get_psycopg2_serialization_exception(exception), lines 183-199.
get_psycopg2_serialization_exception_any_pgcode(exception) ==
    get_psycopg2_exception(exception)

get_psycopg2_serialization_exception(exception) ==
    LET root == get_psycopg2_exception(exception)
    IN  IF root = None THEN None
        ELSE IF root[1].pgcode = "40001" THEN root
        ELSE None

\* is_serialization_failure(exception), lines 202-211.
is_serialization_failure(exception) ==
    get_psycopg2_serialization_exception(exception) # None

\* How one call of func(*args, **kwargs) can end.
FuncOutcomes ==
    {[kind |-> "returned", value |-> v, exc |-> None] : v \in FuncValues}
    \cup {[kind |-> "raised", value |-> 0, exc |-> e] : e \in FuncExceptions}

\* retrier(*args, **kwargs) is called.
RetrierCalled ==
    /\ rpc = "idle"
    /\ rpc' = "loop"
    /\ UNCHANGED <<round, calls, lastCall, retriedOn, successes,
                   retrier_result>>
    /\ UNCHANGED beside_retry

\* What every call of func does to the bookkeeping.
call_func(outcome) ==
    /\ calls' = calls + 1
    /\ lastCall' = outcome
    /\ retriedOn' = IF lastCall.kind = "raised"
                    THEN retriedOn \cup {lastCall.exc} ELSE retriedOn
    /\ successes' = IF outcome.kind = "returned"
                    THEN successes + 1 ELSE successes

\* One round of the loop, lines 264-269: func's value is returned; an
\* OperationalError that is a serialization failure ends the round; any other
\* exception leaves retrier.
LoopCall ==
    /\ rpc = "loop"
    /\ round < Rounds
    /\ \E outcome \in FuncOutcomes :
          /\ call_func(outcome)
          /\ IF /\ outcome.kind = "raised"
                /\ outcome.exc[1].class = "OperationalError"
                /\ is_serialization_failure(outcome.exc)
             THEN /\ round' = round + 1
                  /\ UNCHANGED <<rpc, retrier_result>>
             ELSE /\ rpc' = outcome.kind
                  /\ retrier_result' = outcome
                  /\ UNCHANGED round
    /\ UNCHANGED beside_retry

\* The loop's else clause, lines 270-271: the loop ran out, func is called
\* outside any try.
ElseCall_inside_the_try ==
    /\ rpc = "loop"
    /\ round = Rounds
    /\ \E outcome \in FuncOutcomes :
          /\ call_func(outcome)
          /\ IF /\ outcome.kind = "raised"
                /\ outcome.exc[1].class = "OperationalError"
                /\ is_serialization_failure(outcome.exc)
             THEN /\ rpc' = "returned"
                  /\ retrier_result' = NoOutcome
             ELSE /\ rpc' = outcome.kind
                  /\ retrier_result' = outcome
    /\ UNCHANGED round
    /\ UNCHANGED beside_retry

ElseCall ==
    /\ rpc = "loop"
    /\ round = Rounds
    /\ \E outcome \in FuncOutcomes :
          /\ call_func(outcome)
          /\ rpc' = outcome.kind
          /\ retrier_result' = outcome
    /\ UNCHANGED round
    /\ UNCHANGED beside_retry

InitRetry == ColdStorage /\ NoListing /\ OthersIdle

NextRetry == RetrierCalled \/ LoopCall \/ ElseCall

SpecRetry == InitRetry /\ [][NextRetry]_vars

\* C26: func is called ten times at most; it is called again only after a
\* call that raised an OperationalError that is a serialization failure;
\* and what retrier returns is what the first call that succeeded returned.
C26_AtMostTenCallsRetryOnlyOnSerializationFailure ==
    /\ calls <= Rounds + 1
    /\ \A e \in retriedOn :
          /\ e[1].class = "OperationalError"
          /\ e[Len(e)].psycopg2
          /\ e[Len(e)].pgcode = "40001"
    /\ successes <= 1
    /\ rpc = "returned" =>
          /\ successes = 1
          /\ lastCall.kind = "returned"
          /\ retrier_result = lastCall

C26_Witness ==
    /\ rpc = "returned"
    /\ calls = Rounds + 1
    /\ Cardinality(retriedOn) = 2
    /\ retrier_result.value = 2

\* ---------------------------------------------------------------- start_up
\* The jobs of inner_start_up, lines 59-77, in the order it does them.
InnerJobs ==
    <<"register_mac_type", "ensure_master", "create_gnupg_home",
      "ensure_boot_source_definition", "register_all_triggers",
      "dns_update_all_zones">>

\* security.get_shared_secret(), line 49.
GetSharedSecret(p) ==
    /\ spc[p] = "start_up"
    /\ spc' = [spc EXCEPT ![p] = "atomic_enter"]
    /\ UNCHANGED <<atomic, startup, inner_done, inner_raised>>
    /\ UNCHANGED beside_start_up

\* `with transaction.atomic():`, line 51: the process's transaction begins.
EnterAtomic(p) ==
    /\ spc[p] = "atomic_enter"
    /\ atomic' = atomic \cup {p}
    /\ spc' = [spc EXCEPT ![p] = "lock_enter"]
    /\ UNCHANGED <<startup, inner_done, inner_raised>>
    /\ UNCHANGED beside_start_up

\* `with locks.startup:`, line 52: the process waits until no other process
\* holds the lock, and then holds it.
AcquireStartupLock(p) ==
    /\ spc[p] = "lock_enter"
    /\ startup = Unlocked
    /\ startup' = p
    /\ spc' = [spc EXCEPT ![p] = "locked"]
    /\ UNCHANGED <<atomic, inner_done, inner_raised>>
    /\ UNCHANGED beside_start_up

\* inner_start_up() is called, line 53.
CallInnerStartUp_before_the_lock(p) ==
    /\ spc[p] \in {"lock_enter", "locked"}
    /\ spc' = [spc EXCEPT ![p] = "inner_start_up"]
    /\ UNCHANGED <<atomic, startup, inner_done, inner_raised>>
    /\ UNCHANGED beside_start_up

CallInnerStartUp(p) ==
    /\ spc[p] = "locked"
    /\ spc' = [spc EXCEPT ![p] = "inner_start_up"]
    /\ UNCHANGED <<atomic, startup, inner_done, inner_raised>>
    /\ UNCHANGED beside_start_up

\* inner_start_up does its next job, or the job raises, or (all jobs done)
\* it returns.
InnerStartUp(p) ==
    /\ spc[p] = "inner_start_up"
    /\ IF inner_done[p] < Len(InnerJobs)
       THEN \/ /\ inner_done' = [inner_done EXCEPT ![p] = @ + 1]
               /\ UNCHANGED <<spc, inner_raised>>
            \/ /\ inner_raised' = inner_raised \cup {p}
               /\ spc' = [spc EXCEPT ![p] = "lock_exit"]
               /\ UNCHANGED inner_done
       ELSE /\ spc' = [spc EXCEPT ![p] = "lock_exit"]
            /\ UNCHANGED <<inner_done, inner_raised>>
    /\ UNCHANGED <<atomic, startup>>
    /\ UNCHANGED beside_start_up

\* The end of `with locks.startup:`, whether inner_start_up returned or
\* raised: the lock is released.
ReleaseStartupLock(p) ==
    /\ spc[p] = "lock_exit"
    /\ startup' = IF startup = p THEN Unlocked ELSE startup
    /\ spc' = [spc EXCEPT ![p] = "atomic_exit"]
    /\ UNCHANGED <<atomic, inner_done, inner_raised>>
    /\ UNCHANGED beside_start_up

\* The end of `with transaction.atomic():`: the transaction commits, or is
\* rolled back when inner_start_up raised, and start_up returns or raises.
ExitAtomic(p) ==
    /\ spc[p] = "atomic_exit"
    /\ atomic' = atomic \ {p}
    /\ spc' = [spc EXCEPT ![p] = IF p \in inner_raised THEN "raised"
                                 ELSE "returned"]
    /\ UNCHANGED <<startup, inner_done, inner_raised>>
    /\ UNCHANGED beside_start_up

InitStartUp == ColdStorage /\ NoListing /\ OthersIdle

NextStartUp ==
    \E p \in Procs :
       \/ GetSharedSecret(p)
       \/ EnterAtomic(p)
       \/ AcquireStartupLock(p)
       \/ CallInnerStartUp(p)
       \/ InnerStartUp(p)
       \/ ReleaseStartupLock(p)
       \/ ExitAtomic(p)

SpecStartUp == InitStartUp /\ [][NextStartUp]_vars

\* C27: no two processes are in inner_start_up at the same time, and a
\* process in inner_start_up holds the startup lock and is inside its
\* transaction.
C27_InnerStartUpSerialized ==
    /\ \A p \in Procs : \A q \in Procs \ {p} :
          ~(spc[p] = "inner_start_up" /\ spc[q] = "inner_start_up")
    /\ \A p \in Procs :
          spc[p] = "inner_start_up" => (startup = p /\ p \in atomic)

C27_Witness ==
    \E p \in Procs : \E q \in Procs \ {p} :
       /\ spc[p] = "inner_start_up"
       /\ inner_done[p] > 0
       /\ spc[q] = "lock_enter"
       /\ q \in atomic

\* The run repointed `current` and then called the target registrar and
\* the reaper.
RepointedThenRegisteredAndReaped ==
    /\ linked
    /\ StepAt("update_current_symlink") < StepAt("update_iscsi_targets")
    /\ StepAt("update_iscsi_targets") < StepAt("cleanup_snapshots_and_cache")
\* The run had nothing to import: no source, an empty catalog, or a catalog
\* equal to the stored one.
NothingToImport == sources_empty \/ EmptyCatalogOutcome \/ UnchangedOutcome

\* C31: a run returns True exactly when it repointed `current` to the
\* snapshot it downloaded and then invoked the target registrar and the
\* reaper; it returns False exactly when it had no source, an empty catalog
\* or an unchanged one, and `current` is then where it was; in every other
\* case it raises.
C31_ReturnValueTellsTheOutcome ==
    RunEnded =>
        /\ (result = "True") <=> RepointedThenRegisteredAndReaped
        /\ result = "True" => (current = snapshot_path
                               /\ snapshot_path \notin startSnapshots)
        /\ (result = "False") <=> NothingToImport
        /\ result = "False" => current = startCurrent
        /\ (result = "raised")
              <=> ~(RepointedThenRegisteredAndReaped \/ NothingToImport)

\* The place of an event in main_with_services' log (0: not in it).
LogAt(event) ==
    IF \E i \in 1..Len(mlog) : mlog[i] = event
    THEN CHOOSE i \in 1..Len(mlog) : mlog[i] = event
    ELSE 0

\* C32: main runs only after getRegionClient returned a client; when every
\* round of the retry loop met NoConnectionsAvailable, main is never run and
\* the exit code is 1; once main has started, stop_services runs after it,
\* whether main returned or raised; and the reactor is stopped in the end,
\* however the run went.
C32_ServicesAroundMain ==
    /\ [](/\ LogAt("main") # 0 =>
                (LogAt("client") # 0 /\ LogAt("client") < LogAt("main"))
          /\ (mpc = "exit" /\ LogAt("client") = 0 /\ LogAt("Exception") = 0)
                => (LogAt("main") = 0 /\ loadCalls = 0 /\ importCalls = 0
                    /\ exit_code = 1)
          /\ (LogAt("main") # 0
              /\ mpc \in {"except", "reactor_stopping", "exit"})
                => LogAt("main") < LogAt("stopService")
          /\ mpc = "exit" => LogAt("reactor.stop") # 0)
    /\ (LogAt("main") # 0) ~> (LogAt("stopService") # 0)
    /\ <>(LogAt("reactor.stop") # 0)

C32_Witness ==
    /\ mpc = "exit"
    /\ LogAt("NoConnectionsAvailable") # 0
    /\ LogAt("NoConnectionsAvailable") < LogAt("client")
    /\ main_raised.type = "NoConfigFile"
    /\ LogAt("main") < LogAt("stopService")
    /\ LogAt("stopService") < LogAt("reactor.stop")

\* The image tuple an entry was made for: its backing store's directory
\* below the snapshot.
EntryTuple(entry) ==
    SubSeq(entry.backing_store.base_path, Len(SnapshotPath) + 1,
           Len(entry.backing_store.base_path))
\* The entries compose_targets_conf emitted for a tuple.
EntriesFor(t) == {i \in 1..Len(conf) : EntryTuple(conf[i]) = t}
Listed(t) == \E i \in 1..Len(listing) : listing[i] = t

\* C33: every entry compose_targets_conf emits is for a listed tuple and
\* for a root-image or squashfs file that exists in that tuple's directory;
\* a tuple with neither file has no entry; every backing store lies below
\* the snapshot; and a tuple has as many entries as it has image files,
\* however many times list_boot_images lists it.
C33_EntriesOnlyForImageFiles ==
    conf # NotComposed =>
        /\ \A i \in 1..Len(conf) :
              /\ SubSeq(conf[i].backing_store.base_path, 1, Len(SnapshotPath))
                   = SnapshotPath
              /\ EntryTuple(conf[i]) \in ImageTuples
              /\ Listed(EntryTuple(conf[i]))
              /\ conf[i].backing_store.name \in images[EntryTuple(conf[i])]
        /\ \A t \in ImageTuples :
              /\ images[t] = {} => EntriesFor(t) = {}
              /\ Cardinality(EntriesFor(t)) = Cardinality(images[t])

C33_Witness ==
    /\ conf # NotComposed
    /\ Len(listing) = 3
    /\ listing[1] = listing[2]
    /\ listing[3] # listing[1]
    /\ images[listing[1]] = ImageFiles
    /\ images[listing[3]] = {}
    /\ Len(conf) = 2

\* The exception is an OperationalError whose last cause is a psycopg2
\* error with pgcode 40001.
RetryableFailure(e) ==
    /\ e[1].class = "OperationalError"
    /\ e[Len(e)].psycopg2
    /\ e[Len(e)].pgcode = "40001"

\* C34: an exception of func that is not an OperationalError, or is one but
\* no serialization failure, leaves retrier on the call that raised it; a
\* serialization failure on the tenth call leaves retrier too; and what
\* leaves retrier is the exception the last call raised.
C34_FailuresPropagate ==
    /\ (lastCall.kind = "raised" /\ ~RetryableFailure(lastCall.exc))
          => (rpc = "raised" /\ retrier_result = lastCall)
    /\ (lastCall.kind = "raised" /\ calls = Rounds + 1)
          => (rpc = "raised" /\ retrier_result = lastCall)
    /\ rpc = "raised"
          => (lastCall.kind = "raised" /\ retrier_result = lastCall)
    /\ \A e \in retriedOn : RetryableFailure(e)

C34_Witness ==
    /\ rpc = "raised"
    /\ calls = Rounds + 1
    /\ RetryableFailure(lastCall.exc)
    /\ retrier_result = lastCall

\* ------------------------------------------------------------ transactional
\* connection.in_atomic_block, for the connection django.db.connection.
in_atomic_block(c) == depth[c] > 0

\* call_within_transaction picks the function to call, lines 288-293.
CallWithinTransaction_always_retrying ==
    /\ tpc = "idle"
    /\ via' = "func_outside_txn"
    /\ tpc' = "outside"
    /\ UNCHANGED <<depth, depth0, closed, tresult, opc, using, saved,
                   body_raised>>
    /\ UNCHANGED <<retryv, beside_txn>>

CallWithinTransaction ==
    /\ tpc = "idle"
    /\ IF in_atomic_block("default")
       THEN via' = "func_within_txn" /\ tpc' = "within"
       ELSE via' = "func_outside_txn" /\ tpc' = "outside"
    /\ UNCHANGED <<depth, depth0, closed, tresult, opc, using, saved,
                   body_raised>>
    /\ UNCHANGED <<retryv, beside_txn>>

\* func_within_txn(*args, **kwargs), line 291: func in an atomic block of
\* its own, which is left again when func returns or raises.
FuncWithinTxn ==
    /\ tpc = "within"
    /\ \E outcome \in FuncOutcomes :
          /\ call_func(outcome)
          /\ tresult' = outcome
    /\ tpc' = "finally"
    /\ UNCHANGED <<rpc, round, retrier_result>>
    /\ UNCHANGED <<depth, depth0, via, closed, opc, using, saved,
                   body_raised>>
    /\ UNCHANGED beside_txn

\* func_outside_txn(*args, **kwargs), line 293: retrier around
\* func_within_txn.
FuncOutsideTxn ==
    /\ tpc = "outside"
    /\ \/ RetrierCalled
       \/ LoopCall
       \/ ElseCall

\* retrier returned or raised.
FuncOutsideTxnEnds ==
    /\ tpc = "outside"
    /\ rpc \in {"returned", "raised"}
    /\ tresult' = retrier_result
    /\ tpc' = "finally"
    /\ UNCHANGED <<depth, depth0, via, closed, opc, using, saved,
                   body_raised>>
    /\ UNCHANGED <<retryv, beside_txn>>

\* The finally clause, lines 294-297, and what call_within_transaction
\* returns or raises.
CloseOldConnections ==
    /\ tpc = "finally"
    /\ closed' = IF ~in_atomic_block("default") THEN closed + 1 ELSE closed
    /\ tpc' = tresult.kind
    /\ UNCHANGED <<depth, depth0, via, tresult, opc, using, saved,
                   body_raised>>
    /\ UNCHANGED <<retryv, beside_txn>>

\* The caller is in any number of atomic blocks on each connection.
InitTransactional ==
    /\ ColdStorage /\ NoListing
    /\ MainNotStarted /\ RetrierNotCalled /\ StartUpNotCalled
    /\ NoScriptSets([r \in ResultTypes |-> 1])
    /\ depth \in [Conns -> 0..MaxDepth]
    /\ depth0 = depth
    /\ TxnNotCalled

NextTransactional ==
    \/ CallWithinTransaction
    \/ FuncWithinTxn
    \/ FuncOutsideTxn
    \/ FuncOutsideTxnEnds
    \/ CloseOldConnections

SpecTransactional == InitTransactional /\ [][NextTransactional]_vars

\* C35: func is called again after a serialization failure only when
\* call_within_transaction was entered outside every atomic block; entered
\* inside one, func is called once and its failure is what is raised; and
\* close_old_connections is called, once, exactly when the connection is
\* outside every atomic block after the call.
C35_RetryOnlyOutsideAtomicBlock ==
    /\ calls > 1 => (via = "func_outside_txn" /\ depth0["default"] = 0)
    /\ depth0["default"] > 0 =>
          /\ via \in {"none", "func_within_txn"}
          /\ calls <= 1
          /\ tpc \in {"finally", "returned", "raised"}
                => (calls = 1 /\ tresult = lastCall)
    /\ depth0["default"] = 0 => via \in {"none", "func_outside_txn"}
    /\ closed > 0 => (closed = 1 /\ depth["default"] = 0)
    /\ tpc \in {"returned", "raised"} =>
          /\ tpc = tresult.kind
          /\ (closed = 1) <=> (depth["default"] = 0)

C35_Witness ==
    /\ tpc = "raised"
    /\ via = "func_within_txn"
    /\ depth0["default"] = MaxDepth
    /\ calls = 1
    /\ RetryableFailure(lastCall.exc)
    /\ tresult = lastCall
    /\ closed = 0

\* ------------------------------------------------------ outside_atomic_block
\* outside_atomic_block(using) is entered, lines 323-327: the connection
\* must be in an atomic block.
EnterOutsideAtomicBlock ==
    /\ opc = "idle"
    /\ \E u \in Conns :
          /\ using' = u
          /\ opc' = IF in_atomic_block(u) THEN "exiting" ELSE "AssertionError"
    /\ UNCHANGED <<depth, depth0, tpc, via, closed, tresult, saved,
                   body_raised>>
    /\ UNCHANGED <<retryv, beside_txn>>

\* One round of the loop of lines 328-330: an atomic block is left; leaving
\* the outermost one commits, which the database may refuse.
AtomicContextExit ==
    /\ opc = "exiting"
    /\ depth' = [depth EXCEPT ![using] = @ - 1]
    /\ saved' = saved + 1
    /\ IF depth[using] > 1
       THEN UNCHANGED opc
       ELSE \E commit \in {"ok", "raised"} :
               opc' = IF commit = "ok" THEN "body" ELSE "commit_raised"
    /\ UNCHANGED <<depth0, tpc, via, closed, tresult, using, body_raised>>
    /\ UNCHANGED <<retryv, beside_txn>>

\* The body of the `with` statement runs at the yield of line 332, and
\* returns or raises.
OutsideBody_without_finally ==
    /\ opc = "body"
    /\ \E raised \in BOOLEAN :
          /\ body_raised' = raised
          /\ opc' = IF raised THEN "raised" ELSE "reentering"
    /\ UNCHANGED <<depth, depth0, tpc, via, closed, tresult, using, saved>>
    /\ UNCHANGED <<retryv, beside_txn>>

OutsideBody ==
    /\ opc = "body"
    /\ \E raised \in BOOLEAN : body_raised' = raised
    /\ opc' = "reentering"
    /\ UNCHANGED <<depth, depth0, tpc, via, closed, tresult, using, saved>>
    /\ UNCHANGED <<retryv, beside_txn>>

\* One round of the loop of lines 334-336: an atomic block is entered.
AtomicContextEnter ==
    /\ opc = "reentering"
    /\ saved > 0
    /\ depth' = [depth EXCEPT ![using] = @ + 1]
    /\ saved' = saved - 1
    /\ UNCHANGED <<depth0, tpc, via, closed, tresult, opc, using,
                   body_raised>>
    /\ UNCHANGED <<retryv, beside_txn>>

\* The context is left: normally, or with the body's exception.
LeaveOutsideAtomicBlock ==
    /\ opc = "reentering"
    /\ saved = 0
    /\ opc' = IF body_raised THEN "raised" ELSE "returned"
    /\ UNCHANGED <<depth, depth0, tpc, via, closed, tresult, using, saved,
                   body_raised>>
    /\ UNCHANGED <<retryv, beside_txn>>

NextOutside ==
    \/ EnterOutsideAtomicBlock
    \/ AtomicContextExit
    \/ OutsideBody
    \/ AtomicContextEnter
    \/ LeaveOutsideAtomicBlock

SpecOutside == InitTransactional /\ [][NextOutside]_vars

\* C36: while the body of `with outside_atomic_block(using)` runs, the
\* connection is in no atomic block; when the context has been left, by
\* return or by the body's exception, the connection is nested as deep as it
\* was on entry; and no other connection's nesting changes.
C36_NestingRestored ==
    /\ opc = "body" => (depth[using] = 0 /\ saved = depth0[using])
    /\ opc \in {"returned", "raised"} =>
          (depth = depth0 /\ (opc = "raised") = body_raised)
    /\ \A c \in Conns \ {using} : depth[c] = depth0[c]

C36_Witness ==
    /\ opc = "raised"
    /\ body_raised
    /\ depth0[using] = MaxDepth
    /\ depth = depth0

\* ---------------------------------------------------------------- ScriptSet
\* The values last_ping takes once a node has pinged.
Pings == {1}
\* The place of a row under ORDER BY last_ping DESC: NULL sorts first.
PingKey(pings, s) == IF pings[s] = NoPing THEN 2 ELSE pings[s]

\* A state of the tables while a function works on them: the ScriptSet rows,
\* the nodes' current script sets, and whether ValidationError was raised.
Tables(rows, cur, raised) == [rows |-> rows, cur |-> cur, raised |-> raised]

Latest(ids) == CHOOSE s \in ids : \A o \in ids : o <= s

\* ScriptSet.delete(force), lines 263-289, on the row `self`; the row's
\* deletion sets the foreign keys that point at it to NULL.
delete_guarding_commissioning_only(st, self, force, nodeOf, typeOf) ==
    LET node == nodeOf[self]
        previous == {s \in st.rows \ {self} :
                        nodeOf[s] = node /\ typeOf[s] = "testing"}
        repointed == IF self = st.cur[node]["testing"] /\ previous # {}
                     THEN [st.cur EXCEPT ![node]["testing"] = Latest(previous)]
                     ELSE st.cur
    IN  IF ~force /\ self = st.cur[node]["commissioning"]
        THEN Tables(st.rows, st.cur, TRUE)
        ELSE Tables(st.rows \ {self},
                    [n \in Nodes |-> [r \in ResultTypes |->
                        IF repointed[n][r] = self THEN NoScriptSet
                        ELSE repointed[n][r]]],
                    FALSE)

delete(st, self, force, nodeOf, typeOf) ==
    LET node == nodeOf[self]
        previous == {s \in st.rows \ {self} :
                        nodeOf[s] = node /\ typeOf[s] = "testing"}
        repointed == IF self = st.cur[node]["testing"] /\ previous # {}
                     THEN [st.cur EXCEPT ![node]["testing"] = Latest(previous)]
                     ELSE st.cur
    IN  IF ~force /\ self \in {st.cur[node]["commissioning"],
                               st.cur[node]["installation"]}
        THEN Tables(st.rows, st.cur, TRUE)
        ELSE Tables(st.rows \ {self},
                    [n \in Nodes |-> [r \in ResultTypes |->
                        IF repointed[n][r] = self THEN NoScriptSet
                        ELSE repointed[n][r]]],
                    FALSE)

\* The orders in which ORDER BY last_ping DESC can return the rows `ids`.
OrderedByPingReversed(ids, pings) ==
    {seq \in [1..Cardinality(ids) -> ids] :
        /\ \A i \in 1..Len(seq) : \A j \in 1..Len(seq) :
              i < j => (seq[i] # seq[j]
                        /\ PingKey(pings, seq[i]) >= PingKey(pings, seq[j]))}

\* `for script_set in script_sets[script_set_limit:]:
\*      script_set.delete(force=True)`, lines 64-65.
RECURSIVE delete_each(_, _, _, _)
delete_each(st, doomed, nodeOf, typeOf) ==
    IF doomed = <<>> THEN st
    ELSE delete_each(delete(st, Head(doomed), TRUE, nodeOf, typeOf),
                     Tail(doomed), nodeOf, typeOf)

\* The rows _clean_old considers, lines 48-53.
clean_old_candidates_with_new(st, node, result_type, new_script_set, nodeOf, typeOf) ==
    {s \in st.rows : nodeOf[s] = node /\ typeOf[s] = result_type}

clean_old_candidates(st, node, result_type, new_script_set, nodeOf, typeOf) ==
    {s \in st.rows : nodeOf[s] = node /\ typeOf[s] = result_type}
        \ {new_script_set}

\* _clean_old(node, result_type, new_script_set) with the rows in the order
\* `script_sets`, lines 54-65: the rows from index script_set_limit on.
clean_old(st, script_sets_, script_set_limit, nodeOf, typeOf) ==
    IF Len(script_sets_) > script_set_limit
    THEN delete_each(st, SubSeq(script_sets_, script_set_limit + 1,
                                Len(script_sets_)), nodeOf, typeOf)
    ELSE st

\* The columns of the rows that exist; a deleted row leaves nothing behind.
Columns(column, rows, blank) ==
    [s \in ScriptSetIds |-> IF s \in rows THEN column[s] ELSE blank]

\* self.create(node=node, result_type=...) followed by
\* self._clean_old(node, result_type, script_set): the part the three
\* create_*_script_set functions share (lines 83-89, 140-148, 157-166).
\* The ScriptResult rows they add are not part of the model.
create_then_clean_old(node, result_type) ==
    /\ next_id <= MaxScriptSets
    /\ LET script_set == next_id
           nodeOf == [ss_node EXCEPT ![script_set] = node]
           typeOf == [ss_type EXCEPT ![script_set] = result_type]
           pings == [last_ping EXCEPT ![script_set] = NoPing]
           st == Tables(script_sets \cup {script_set}, currents, FALSE)
           found == clean_old_candidates(st, node, result_type, script_set,
                                         nodeOf, typeOf)
       IN  \E ordered \in OrderedByPingReversed(found, pings) :
             LET after == clean_old(st, ordered, limits[result_type] - 1,
                                    nodeOf, typeOf)
             IN  /\ script_sets' = after.rows
                 /\ currents' = after.cur
                 /\ ss_node' = Columns(nodeOf, after.rows, 1)
                 /\ ss_type' = Columns(typeOf, after.rows, "commissioning")
                 /\ last_ping' = Columns(pings, after.rows, NoPing)
                 /\ next_id' = next_id + 1
                 /\ created' = script_set
                 /\ cleaned' = {<<nodeOf[s], typeOf[s]>> :
                                    s \in st.rows \ after.rows}
                 /\ last_op' = "created"
                 /\ deleting' = NoScriptSet
                 /\ before' = NoDelete
                 /\ UNCHANGED limits

\* ScriptSetManager.create_commissioning_script_set, lines 67-112.
create_commissioning_script_set(node) ==
    /\ create_then_clean_old(node, "commissioning")
    /\ UNCHANGED beside_scripts

\* ScriptSetManager.create_testing_script_set, lines 114-150: without any
\* script to run it raises NoScriptsFound before it creates anything.
create_testing_script_set(node) ==
    /\ \/ create_then_clean_old(node, "testing")
       \/ /\ last_op' = "NoScriptsFound"
          /\ created' = NoScriptSet
          /\ cleaned' = {}
          /\ deleting' = NoScriptSet
          /\ before' = NoDelete
          /\ UNCHANGED <<script_sets, ss_node, ss_type, last_ping, currents,
                         next_id, limits>>
    /\ UNCHANGED beside_scripts

\* ScriptSetManager.create_installation_script_set, lines 152-168.
create_installation_script_set(node) ==
    /\ create_then_clean_old(node, "installation")
    /\ UNCHANGED beside_scripts

\* A node reports in: last_ping of one of its script sets is set.
Ping(script_set, at) ==
    /\ script_set \in script_sets
    /\ last_ping[script_set] < at
    /\ last_ping' = [last_ping EXCEPT ![script_set] = at]
    /\ last_op' = "none"
    /\ created' = NoScriptSet
    /\ cleaned' = {}
    /\ deleting' = NoScriptSet
    /\ before' = NoDelete
    /\ UNCHANGED <<script_sets, ss_node, ss_type, currents, next_id, limits>>
    /\ UNCHANGED beside_scripts

\* The node takes one of its script sets as the current one of its type:
\* node.current_<result_type>_script_set = script_set; node.save().
SetCurrentScriptSet(script_set) ==
    /\ script_set \in script_sets
    /\ currents[ss_node[script_set]][ss_type[script_set]] # script_set
    /\ currents' = [currents EXCEPT
                      ![ss_node[script_set]][ss_type[script_set]] = script_set]
    /\ last_op' = "none"
    /\ created' = NoScriptSet
    /\ cleaned' = {}
    /\ deleting' = NoScriptSet
    /\ before' = NoDelete
    /\ UNCHANGED <<script_sets, ss_node, ss_type, last_ping, next_id, limits>>
    /\ UNCHANGED beside_scripts

\* A caller runs script_set.delete(force=force).
DeleteScriptSet(script_set, force) ==
    /\ script_set \in script_sets
    /\ LET after == delete(Tables(script_sets, currents, FALSE), script_set,
                           force, ss_node, ss_type)
       IN  /\ script_sets' = after.rows
           /\ currents' = after.cur
           /\ last_op' = IF after.raised THEN "ValidationError"
                        ELSE IF force THEN "deleted_by_force" ELSE "deleted"
           /\ ss_node' = Columns(ss_node, after.rows, 1)
           /\ ss_type' = Columns(ss_type, after.rows, "commissioning")
           /\ last_ping' = Columns(last_ping, after.rows, NoPing)
    /\ deleting' = script_set
    /\ created' = NoScriptSet
    /\ cleaned' = {}
    /\ before' = [node |-> ss_node[script_set],
                  current |-> {r \in ResultTypes :
                      currents[ss_node[script_set]][r] = script_set}]
    /\ UNCHANGED <<next_id, limits>>
    /\ UNCHANGED beside_scripts

InitScripts ==
    /\ ColdStorage
    /\ NoListing
    /\ MainNotStarted
    /\ RetrierNotCalled
    /\ StartUpNotCalled
    /\ NoTransaction
    /\ \E limit \in 1..MaxLimit :
          NoScriptSets([r \in ResultTypes |-> limit])

NextScripts ==
    \/ \E node \in Nodes : create_commissioning_script_set(node)
    \/ \E node \in Nodes : create_testing_script_set(node)
    \/ \E node \in Nodes : create_installation_script_set(node)
    \/ \E script_set \in ScriptSetIds : \E at \in Pings : Ping(script_set, at)
    \/ \E script_set \in ScriptSetIds : SetCurrentScriptSet(script_set)
    \/ \E script_set \in ScriptSetIds : \E force \in BOOLEAN :
          DeleteScriptSet(script_set, force)

SpecScripts == InitScripts /\ [][NextScripts]_vars

OfKind(rows, node, result_type) ==
    {s \in rows : ss_node[s] = node /\ ss_type[s] = result_type}

\* C38: after a create_*_script_set call the new script set exists,
\* _clean_old removed only other script sets of the same node and result
\* type, and the node has at most the configured maximum number of script
\* sets of that type, the new one included.
C38_CleanOldKeepsTheNewest ==
    last_op = "created" =>
        /\ created \in script_sets
        /\ \A gone \in cleaned : gone = <<ss_node[created], ss_type[created]>>
        /\ Cardinality(OfKind(script_sets, ss_node[created],
                              ss_type[created])) <= limits[ss_type[created]]

\* A create that found the node at its maximum and removed an older script
\* set while a script set of another node or of another type stayed.
C38_Witness ==
    /\ last_op = "created"
    /\ cleaned # {}
    /\ created \in script_sets
    /\ \E s \in script_sets : \/ ss_node[s] # ss_node[created]
                              \/ ss_type[s] # ss_type[created]

\* C37: delete without force of the node's current commissioning or current
\* installation script set raises ValidationError and removes nothing; a
\* delete that removes the node's current testing script set leaves
\* current_testing_script_set at the node's remaining testing script set
\* with the highest id, when the node has one.
C37_DeleteGuardsCurrentScriptSets ==
    deleting # NoScriptSet =>
        LET node == before.node
            remaining == OfKind(script_sets, node, "testing")
        IN  /\ (/\ last_op # "deleted_by_force"
                /\ before.current \cap {"commissioning", "installation"} # {})
                  => /\ last_op = "ValidationError"
                     /\ deleting \in script_sets
                     /\ \A r \in before.current :
                           currents[node][r] = deleting
            /\ (/\ last_op \in {"deleted", "deleted_by_force"}
                /\ "testing" \in before.current
                /\ remaining # {})
                  => /\ deleting \notin script_sets
                     /\ currents[node]["testing"] = Latest(remaining)

\* The current installation script set was refused, or the current testing
\* script set was deleted while two other testing script sets remained.
C37_Witness ==
    /\ deleting # NoScriptSet
    /\ \/ /\ last_op = "ValidationError"
          /\ deleting = currents[before.node]["installation"]
       \/ /\ last_op = "deleted"
          /\ "testing" \in before.current
          /\ Cardinality(OfKind(script_sets, before.node, "testing")) = 2

====
